---- MODULE Spec2Model ----
(***************************************************************************)
(* A model of the obe rendering pipeline: the CSS selector parser, the     *)
(* style resolver, the layout tree builder, the block layout engine and    *)
(* the painter with its canvas.                                            *)
(*                                                                         *)
(* Option<T> is a sequence of length 0 (None) or 1 (Some(x)).  A Vec is a  *)
(* sequence.  A String is a TLA+ string, except the `class` attribute of   *)
(* an element and the class names of a selector, which are sequences of    *)
(* one-character strings so that split(' ') can be computed.  An f32 is an *)
(* integer number of half pixels (every length the parser reads is a whole *)
(* number of pixels, and the only division of the layout engine is by 2.0).*)
(***************************************************************************)
EXTENDS Integers, Sequences, FiniteSets, TLC

VARIABLES
    pc,                \* position of the modelled pipeline stage
    input,             \* css Parser.input: the simple selectors of a selector list, in text order
    selectors,         \* the Vec<Selector> parse_selectors returns
    elem,              \* the ElementData being matched / styled
    selector,          \* the SimpleSelector handed to matches_simple_selector
    matched,           \* the bool matches_simple_selector returned
    stylesheet,        \* the Stylesheet (Vec<Rule>) handed to specified_values
    rules,             \* specified_values' local `rules` after the sort
    values,            \* the PropertyMap specified_values returns
    specificities,     \* the Specificity of each parsed selector
    document,          \* the dom Node tree handed to style_tree
    styled,            \* the StyledNode tree style_tree returns / handed to the layout stage
    containing_block,  \* the caller's Dimensions handed to layout_tree
    root,              \* the LayoutBox tree returned
    panicked,          \* TRUE when the stage aborted with panic!
    message,           \* the message of the panic! of the painting pipeline, "" when none
    display_list,      \* paint's local display_list (Vec<DisplayCommand>)
    canvas,            \* the Canvas being painted
    item,              \* the position of paint's loop in display_list
    window             \* main's (width, height): the size of the viewport and of the canvas

vars == <<pc, input, selectors, specificities, elem, selector, matched, stylesheet, rules, values,
          document, styled, containing_block, root, panicked, message, display_list, canvas, item,
          window>>

-----------------------------------------------------------------------------
(* Bounds of the model.                                                    *)

MaxSelectors == 3      \* selectors in one selector list
MaxRules == 2          \* rules in a stylesheet
MaxNodes == 4          \* styled nodes in a tree handed to build_layout_tree
MaxLayoutNodes == 3    \* styled nodes in a tree handed to layout_tree

-----------------------------------------------------------------------------
(* Rust library types.                                                     *)

None == <<>>
Some(x) == <<x>>

Range(s) == {s[i] : i \in DOMAIN s}

\* Ordering of two usize values.
cmp_usize(a, b) == IF a < b THEN "Less" ELSE IF a > b THEN "Greater" ELSE "Equal"

\* Ord for the tuple (usize, usize, usize): lexicographic.
cmp(a, b) ==
    IF a[1] # b[1] THEN cmp_usize(a[1], b[1])
    ELSE IF a[2] # b[2] THEN cmp_usize(a[2], b[2])
    ELSE cmp_usize(a[3], b[3])

\* slice::sort_by: a stable sort.  `compare` is the closure, as a function on
\* pairs <<a, b>>; an element moves left only past elements that compare
\* Greater than it, so equal elements keep their order.
RECURSIVE insert(_, _, _)
insert(sorted, x, compare) ==
    IF sorted = <<>> THEN <<x>>
    ELSE LET last == sorted[Len(sorted)]
         IN  IF compare[<<last, x>>] = "Greater"
             THEN Append(insert(SubSeq(sorted, 1, Len(sorted) - 1), x, compare), last)
             ELSE Append(sorted, x)

RECURSIVE sort_by(_, _)
sort_by(v, compare) ==
    IF v = <<>> THEN <<>>
    ELSE insert(sort_by(SubSeq(v, 1, Len(v) - 1), compare), v[Len(v)], compare)

-----------------------------------------------------------------------------
(* css_parser.rs                                                           *)

SimpleSelector(tag_name, id, class) == [tag_name |-> tag_name, id |-> id, class |-> class]

\* A specificity that ranks the class count before the id count.
specificity_class_first(sel) ==
    <<Len(sel.class), Len(sel.id), Len(sel.tag_name)>>

\* Selector::specificity
specificity(sel) ==
    LET a == Len(sel.id)
        b == Len(sel.class)
        c == Len(sel.tag_name)
    IN  <<a, b, c>>

\* A parse_selectors whose closure compares a with b: least specific first.
parse_selectors_ascending(src) ==
    sort_by(src, [p \in Range(src) \X Range(src) |->
                     cmp(specificity(p[1]), specificity(p[2]))])

\* Parser::parse_selectors: push every simple selector of the list, then sort
\* by |a, b| b.specificity().cmp(&a.specificity()).
parse_selectors(src) ==
    sort_by(src, [p \in Range(src) \X Range(src) |->
                     cmp(specificity(p[2]), specificity(p[1]))])


\* Value: Keyword(String) | Length(f32, Unit) | Colorvalue(Color)
Keyword(s) == [kind |-> "Keyword", s |-> s, n |-> 0]
Length(n, unit) == [kind |-> "Length", s |-> unit, n |-> n]
Colorvalue(c) == [kind |-> "Colorvalue", s |-> c, n |-> 0]

Declaration(name, value) == [name |-> name, value |-> value]
Rule(sels, declarations) == [selectors |-> sels, declarations |-> declarations]

-----------------------------------------------------------------------------
(* dom.rs                                                                  *)

\* NodeType::Text, NodeType::Element and Node.  A document is a sequence of
\* nodes, node 1 the root; `children` holds the indices of a node's children.
Text(data) == [kind |-> "Text", data |-> data]
Element(data) == [kind |-> "Element", data |-> data]
Node(children, node_type) == [children |-> children, node_type |-> node_type]

ElementData(tag_name, attributes) == [tag_name |-> tag_name, attributes |-> attributes]

\* HashMap::get
get(map, key) == IF key \in DOMAIN map THEN Some(map[key]) ELSE None

\* ElementData::id
id(e) == get(e.attributes, "id")

\* str::split(' '): the pieces between the separators, empty pieces included.
RECURSIVE split(_, _)
split(s, sep) ==
    IF \A i \in DOMAIN s : s[i] # sep THEN <<s>>
    ELSE LET i == CHOOSE k \in DOMAIN s : s[k] = sep /\ \A j \in 1..(k - 1) : s[j] # sep
         IN  <<SubSeq(s, 1, i - 1)>> \o split(SubSeq(s, i + 1, Len(s)), sep)

\* ElementData::classes
classes(e) ==
    LET classlist == get(e.attributes, "class")
    IN  IF classlist # None THEN Range(split(classlist[1], " ")) ELSE {}

-----------------------------------------------------------------------------
(* style.rs: the style resolver                                            *)

\* A matcher that lets an element without an id pass the id check.
matches_simple_selector_lenient_id(e, sel) ==
    IF \E i \in DOMAIN sel.tag_name : e.tag_name # sel.tag_name[i] THEN FALSE
    ELSE IF \E i \in DOMAIN sel.id : id(e) # None /\ id(e) # Some(sel.id[i]) THEN FALSE
    ELSE LET elem_classes == classes(e)
         IN  IF \E i \in DOMAIN sel.class : sel.class[i] \notin elem_classes THEN FALSE
             ELSE TRUE

\* matches_simple_selector
matches_simple_selector(e, sel) ==
    IF \E i \in DOMAIN sel.tag_name : e.tag_name # sel.tag_name[i] THEN FALSE
    ELSE IF \E i \in DOMAIN sel.id : id(e) # Some(sel.id[i]) THEN FALSE
    ELSE LET elem_classes == classes(e)
         IN  IF \E i \in DOMAIN sel.class : sel.class[i] \notin elem_classes THEN FALSE
             ELSE TRUE

\* matches: Selector::Simple is the only variant.
matches(e, sel) == matches_simple_selector(e, sel)

\* A MatchedRule is (Specificity, &Rule); the reference is the rule's index in
\* stylesheet.rules.
MatchedRule(spec, r) == [specificity |-> spec, rule |-> r]

\* A match_rule that takes the last matching selector.
match_rule_last(e, sheet, r) ==
    LET sels == sheet[r].selectors
        hits == {i \in DOMAIN sels : matches(e, sels[i])}
    IN  IF hits = {} THEN None
        ELSE LET i == CHOOSE k \in hits : \A j \in hits : k >= j
             IN  Some(MatchedRule(specificity(sels[i]), r))

\* match_rule: the first matching selector of the rule, if any.
match_rule(e, sheet, r) ==
    LET sels == sheet[r].selectors
        hits == {i \in DOMAIN sels : matches(e, sels[i])}
    IN  IF hits = {} THEN None
        ELSE LET i == CHOOSE k \in hits : \A j \in hits : k <= j
             IN  Some(MatchedRule(specificity(sels[i]), r))

\* matching_rules: filter_map of match_rule over the rules, in stylesheet order.
RECURSIVE matching_rules_upto(_, _, _)
matching_rules_upto(e, sheet, k) ==
    IF k = 0 THEN <<>>
    ELSE matching_rules_upto(e, sheet, k - 1) \o match_rule(e, sheet, k)

matching_rules(e, sheet) == matching_rules_upto(e, sheet, Len(sheet))

\* HashMap::insert
map_insert(map, key, value) ==
    [k \in DOMAIN map \cup {key} |-> IF k = key THEN value ELSE map[k]]

EmptyMap == [k \in {} |-> Keyword("")]

\* The inner loop of specified_values: insert each declaration of a rule.
RECURSIVE insert_declarations(_, _, _)
insert_declarations(map, declarations, k) ==
    IF k = 0 THEN map
    ELSE map_insert(insert_declarations(map, declarations, k - 1),
                    declarations[k].name, declarations[k].value)

\* The outer loop of specified_values over the sorted rules.
RECURSIVE apply_rules(_, _, _)
apply_rules(sheet, sorted, k) ==
    IF k = 0 THEN EmptyMap
    ELSE LET declarations == sheet[sorted[k].rule].declarations
         IN  insert_declarations(apply_rules(sheet, sorted, k - 1),
                                 declarations, Len(declarations))

\* A sort of the matched rules from highest to lowest specificity.
sorted_rules_descending(e, sheet) ==
    LET found == matching_rules(e, sheet)
    IN  sort_by(found, [p \in Range(found) \X Range(found) |->
                           cmp(p[2].specificity, p[1].specificity)])

\* A sort of the matched rules that ignores the stylesheet order of ties: it
\* sorts the rules taken from the last to the first.
sorted_rules_ties_reversed(e, sheet) ==
    LET found == matching_rules(e, sheet)
        rev == [i \in DOMAIN found |-> found[Len(found) + 1 - i]]
    IN  sort_by(rev, [p \in Range(found) \X Range(found) |->
                         cmp(p[1].specificity, p[2].specificity)])

\* specified_values' `rules` after rules.sort_by(|&(a, _), &(b, _)| a.cmp(&b)).
sorted_rules(e, sheet) ==
    LET found == matching_rules(e, sheet)
    IN  sort_by(found, [p \in Range(found) \X Range(found) |->
                           cmp(p[1].specificity, p[2].specificity)])

\* specified_values
specified_values(e, sheet) ==
    LET sorted == sorted_rules(e, sheet)
    IN  apply_rules(sheet, sorted, Len(sorted))


-----------------------------------------------------------------------------
(* style.rs: StyledNode.  style_tree returns the tree as it builds it, the  *)
(* children nested in their parent.  The tree handed to the layout stage,  *)
(* whose boxes hold references &StyledNode, is a sequence of nodes, node 1 *)
(* the root: a reference is the node's index, and `children` holds the     *)
(* indices of the node's children in order.                                *)

\* `node` is the reference to the dom Node: its index in the document.
StyledNode(node, specified_values_, children) ==
    [node |-> node, specified_values |-> specified_values_, children |-> children]

\* StyledNode::value
value(node, name) == get(node.specified_values, name)

\* A display that takes every keyword it does not know for block.
display_unknown_as_block(node) ==
    LET v == value(node, "display")
    IN  IF v # None /\ v[1].kind = "Keyword"
        THEN IF v[1].s = "none" THEN "None"
             ELSE IF v[1].s = "inline" THEN "Inline"
             ELSE "Block"
        ELSE "Inline"

\* StyledNode::display
display(node) ==
    LET v == value(node, "display")
    IN  IF v # None /\ v[1].kind = "Keyword"
        THEN IF v[1].s = "block" THEN "Block"
             ELSE IF v[1].s = "none" THEN "None"
             ELSE "Inline"
        ELSE "Inline"

\* style_tree returns the StyledNode of the document node root_ with its
\* children nested in it (a Vec<StyledNode>).
RECURSIVE style_tree(_, _, _)

\* A style_tree that leaves out the children that are display:none.
RECURSIVE style_tree_pruned(_, _, _)
style_tree_pruned(doc, root_, sheet) ==
    LET all == [k \in DOMAIN doc[root_].children |->
                   style_tree_pruned(doc, doc[root_].children[k], sheet)]
    IN  StyledNode(root_,
                   IF doc[root_].node_type.kind = "Element"
                   THEN specified_values(doc[root_].node_type.data, sheet)
                   ELSE EmptyMap,
                   SelectSeq(all, LAMBDA c : display(c) # "None"))

style_tree(doc, root_, sheet) ==
    StyledNode(root_,
               IF doc[root_].node_type.kind = "Element"
               THEN specified_values(doc[root_].node_type.data, sheet)
               ELSE EmptyMap,
               [k \in DOMAIN doc[root_].children |->
                   style_tree(doc, doc[root_].children[k], sheet)])

\* StyledNode::lookup(name, fallback_name, default): the value of `name`, else
\* that of `fallback_name`, else the default.
lookup(node, name, fallback_name, default) ==
    IF value(node, name) # None THEN value(node, name)[1]
    ELSE IF value(node, fallback_name) # None THEN value(node, fallback_name)[1]
    ELSE default

\* Value::to_px: the length in px, 0 for every value that is no length.
to_px(v) == IF v.kind = "Length" /\ v.s = "Px" THEN v.n ELSE 0

-----------------------------------------------------------------------------
(* layout.rs                                                               *)

Rect(x, y, width, height) == [x |-> x, y |-> y, width |-> width, height |-> height]
EdgeSizes(left, right, top, bottom) == [left |-> left, right |-> right, top |-> top, bottom |-> bottom]

\* Dimensions::default()
DefaultDimensions ==
    [content |-> Rect(0, 0, 0, 0), padding |-> EdgeSizes(0, 0, 0, 0),
     border |-> EdgeSizes(0, 0, 0, 0), margin |-> EdgeSizes(0, 0, 0, 0)]

\* BoxType: BlockNode(&StyledNode) | InlineNode(&StyledNode) | AnonymousBlock.
\* `node` is 0 for an Anonymous box.
\* LayoutBox::new
LayoutBox_new(box_type, node) ==
    [box_type |-> box_type, node |-> node, dimensions |-> DefaultDimensions, children |-> <<>>]

\* The result of a call that ended in panic!.
Panic == [box_type |-> "panic", message |-> "Root node has display: none."]

\* The result of a call that ended in the panic! of get_style_node.
NoStyleNode == [box_type |-> "panic", message |-> "Anonymous block box has no style node."]

\* LayoutBox::get_style_node: the styled node of a Block or Inline box; it
\* panics (0) for an Anonymous box.
get_style_node(self) ==
    IF self.box_type \in {"BlockNode", "InlineNode"} THEN self.node ELSE 0

\* A get_inline_container that opens a new Anonymous box for every inline child.
get_inline_container_always_new(self) ==
    IF self.box_type \in {"InlineNode", "AnonymousBlock"} THEN [box |-> self, at |-> 0]
    ELSE LET pushed == [self EXCEPT !.children = Append(@, LayoutBox_new("AnonymousBlock", 0))]
         IN  [box |-> pushed, at |-> Len(pushed.children)]

\* A get_inline_container that returns self for every box.
get_inline_container_self(self) == [box |-> self, at |-> 0]

\* LayoutBox::get_inline_container: `box` is self after the call, `at` the
\* position of the returned container: 0 for self, else the index of a child.
get_inline_container(self) ==
    IF self.box_type \in {"InlineNode", "AnonymousBlock"} THEN [box |-> self, at |-> 0]
    ELSE LET n == Len(self.children)
             pushed == IF n > 0 /\ self.children[n].box_type = "AnonymousBlock"
                       THEN self
                       ELSE [self EXCEPT !.children = Append(@, LayoutBox_new("AnonymousBlock", 0))]
         IN  [box |-> pushed, at |-> Len(pushed.children)]

\* container.children.push(child)
push_child(container, child) ==
    IF container.at = 0
    THEN [container.box EXCEPT !.children = Append(@, child)]
    ELSE [container.box EXCEPT !.children[container.at].children = Append(@, child)]

\* build_layout_tree: the root box of style_node, then the loop over the
\* first k children of the node.
RECURSIVE build_layout_tree(_, _)
RECURSIVE build_children(_, _, _)

\* A builder that gives a display:none child a box among the inline boxes
\* instead of skipping it.
RECURSIVE build_children_keep_hidden(_, _, _)
build_children_keep_hidden(tree, style_node, k) ==
    IF k = 0
    THEN LayoutBox_new(IF display(tree[style_node]) = "Block" THEN "BlockNode" ELSE "InlineNode",
                       style_node)
    ELSE LET before == build_children_keep_hidden(tree, style_node, k - 1)
             child == tree[style_node].children[k]
             built == build_children_keep_hidden(tree, child, Len(tree[child].children))
         IN  IF display(tree[child]) = "Block"
             THEN [before EXCEPT !.children = Append(@, built)]
             ELSE push_child(get_inline_container(before), built)

\* A builder that recurses into a display:none child instead of skipping it.
RECURSIVE build_children_unskipped(_, _, _)
build_children_unskipped(tree, style_node, k) ==
    IF k = 0
    THEN LayoutBox_new(IF display(tree[style_node]) = "Block" THEN "BlockNode" ELSE "InlineNode",
                       style_node)
    ELSE LET before == build_children_unskipped(tree, style_node, k - 1)
             child == tree[style_node].children[k]
             built == build_layout_tree(tree, child)
         IN  IF before.box_type = "panic" \/ built.box_type = "panic" THEN Panic
             ELSE IF display(tree[child]) = "Block"
             THEN [before EXCEPT !.children = Append(@, built)]
             ELSE push_child(get_inline_container(before), built)

\* A builder for which a display:none child ends a run of inline children.
RECURSIVE build_children_none_breaks_run(_, _, _)
build_children_none_breaks_run(tree, style_node, k) ==
    IF k = 0
    THEN LayoutBox_new(IF display(tree[style_node]) = "Block" THEN "BlockNode" ELSE "InlineNode",
                       style_node)
    ELSE LET before == build_children_none_breaks_run(tree, style_node, k - 1)
             child == tree[style_node].children[k]
         IN  IF before.box_type = "panic" THEN Panic
             ELSE IF display(tree[child]) = "None" THEN before
             ELSE LET built == build_layout_tree(tree, child)
                  IN  IF built.box_type = "panic" THEN Panic
                      ELSE IF display(tree[child]) = "Block"
                      THEN [before EXCEPT !.children = Append(@, built)]
                      ELSE IF k > 1 /\ display(tree[tree[style_node].children[k - 1]]) = "None"
                      THEN push_child(get_inline_container_always_new(before), built)
                      ELSE push_child(get_inline_container(before), built)

build_children(tree, style_node, k) ==
    IF k = 0
    THEN LayoutBox_new(IF display(tree[style_node]) = "Block" THEN "BlockNode" ELSE "InlineNode",
                       style_node)
    ELSE LET before == build_children(tree, style_node, k - 1)
             child == tree[style_node].children[k]
         IN  IF before.box_type = "panic" THEN Panic
             ELSE IF display(tree[child]) = "None" THEN before
             ELSE LET built == build_layout_tree(tree, child)
                  IN  IF built.box_type = "panic" THEN Panic
                      ELSE IF display(tree[child]) = "Block"
                      THEN [before EXCEPT !.children = Append(@, built)]
                      ELSE push_child(get_inline_container(before), built)

build_layout_tree(tree, style_node) ==
    IF display(tree[style_node]) = "None" THEN Panic
    ELSE build_children(tree, style_node, Len(tree[style_node].children))

\* Dimensions::padding_box
padding_box(d) ==
    Rect(d.content.x - d.padding.left, d.content.y - d.padding.top,
         d.content.width + d.padding.left + d.padding.right,
         d.content.height + d.padding.top + d.padding.bottom)

\* Dimensions::border_box
border_box(d) ==
    LET r == padding_box(d)
    IN  Rect(r.x - d.border.left, r.y - d.border.top,
             r.width + d.border.left + d.border.right,
             r.height + d.border.top + d.border.bottom)

\* Dimensions::margin_box
margin_box(d) ==
    LET r == border_box(d)
    IN  Rect(r.x - d.margin.left, r.y - d.margin.top,
             r.width + d.margin.left + d.margin.right,
             r.height + d.margin.top + d.margin.bottom)

auto == Keyword("auto")
zero == Length(0, "Px")

\* The `match (width == auto, margin_left == auto, margin_right == auto)` of
\* calculate_block_width, one operator for each value it assigns.
\* A match that lets an auto width take a negative underflow.
used_width_unclamped(case, width, underflow) ==
    IF case[1] THEN Length(underflow, "Px") ELSE width

used_width(case, width, underflow) ==
    IF case[1]
    THEN IF underflow >= 0 THEN Length(underflow, "Px") ELSE Length(0, "Px")
    ELSE width

\* A match whose arm for two auto margins gives margin-left the whole underflow.
used_margin_left_whole(case, margin_left, underflow) ==
    IF case = <<FALSE, TRUE, FALSE>> THEN Length(underflow, "Px")
    ELSE IF case = <<FALSE, TRUE, TRUE>> THEN Length(underflow, "Px")
    ELSE IF case[1] /\ margin_left = auto THEN zero
    ELSE margin_left

used_margin_left(case, margin_left, underflow) ==
    IF case = <<FALSE, TRUE, FALSE>> THEN Length(underflow, "Px")
    ELSE IF case = <<FALSE, TRUE, TRUE>> THEN Length(underflow \div 2, "Px")
    ELSE IF case[1] /\ margin_left = auto THEN zero
    ELSE margin_left

\* A match whose over-constrained arm leaves margin-right as specified.
used_margin_right_as_specified(case, margin_right, underflow) ==
    IF case = <<FALSE, FALSE, FALSE>> THEN margin_right
    ELSE IF case = <<FALSE, FALSE, TRUE>> THEN Length(underflow, "Px")
    ELSE IF case = <<FALSE, TRUE, TRUE>> THEN Length(underflow \div 2, "Px")
    ELSE IF case[1]
    THEN LET m == IF margin_right = auto THEN zero ELSE margin_right
         IN  IF underflow >= 0 THEN m ELSE Length(to_px(m) + underflow, "Px")
    ELSE margin_right

used_margin_right(case, margin_right, underflow) ==
    IF case = <<FALSE, FALSE, FALSE>> THEN Length(to_px(margin_right) + underflow, "Px")
    ELSE IF case = <<FALSE, FALSE, TRUE>> THEN Length(underflow, "Px")
    ELSE IF case = <<FALSE, TRUE, TRUE>> THEN Length(underflow \div 2, "Px")
    ELSE IF case[1]
    THEN LET m == IF margin_right = auto THEN zero ELSE margin_right
         IN  IF underflow >= 0 THEN m ELSE Length(to_px(m) + underflow, "Px")
    ELSE margin_right

\* An overflowing box whose auto margins stay auto.
auto_margin_kept(over, margin) == margin

\* `if width != auto && total > containing_block.content.width`: an auto
\* margin is treated as 0.
auto_margin_as_zero(over, margin) == IF over /\ margin = auto THEN zero ELSE margin

\* A margin-left whose initial value is auto.
specified_margin_left_default_auto(style) == lookup(style, "margin-left", "margin", auto)

\* The values calculate_block_width reads for margin_left and margin_right.
specified_margin_left(style) == lookup(style, "margin-left", "margin", zero)
specified_margin_right(style) == lookup(style, "margin-right", "margin", zero)

\* LayoutBox::calculate_block_width: the box with its horizontal dimensions.
calculate_block_width(tree, self, cb) ==
    IF get_style_node(self) = 0 THEN NoStyleNode ELSE
    LET style == tree[get_style_node(self)]
        width0 == IF value(style, "width") # None THEN value(style, "width")[1] ELSE auto
        margin_left0 == specified_margin_left(style)
        margin_right0 == specified_margin_right(style)
        border_left == lookup(style, "border-left", "border", zero)
        border_right == lookup(style, "border-right", "border", zero)
        padding_left == lookup(style, "padding-left", "padding", zero)
        padding_right == lookup(style, "padding-right", "padding", zero)
        total == to_px(width0) + to_px(margin_left0) + to_px(margin_right0)
                 + to_px(border_left) + to_px(border_right)
                 + to_px(padding_left) + to_px(padding_right)
        over == width0 # auto /\ total > cb.content.width
        margin_left1 == auto_margin_as_zero(over, margin_left0)
        margin_right1 == auto_margin_as_zero(over, margin_right0)
        underflow == cb.content.width - total
        case == <<width0 = auto, margin_left1 = auto, margin_right1 = auto>>
        width == used_width(case, width0, underflow)
        margin_left == used_margin_left(case, margin_left1, underflow)
        margin_right == used_margin_right(case, margin_right1, underflow)
    IN  [self EXCEPT !.dimensions.content.width = to_px(width),
                     !.dimensions.padding.left = to_px(padding_left),
                     !.dimensions.padding.right = to_px(padding_right),
                     !.dimensions.border.left = to_px(border_left),
                     !.dimensions.border.right = to_px(border_right),
                     !.dimensions.margin.left = to_px(margin_left),
                     !.dimensions.margin.right = to_px(margin_right)]

\* A calculate_block_position that places every box at the top of its
\* containing block.
calculate_block_position_at_top(tree, self, cb) ==
    LET style == tree[get_style_node(self)]
        d0 == self.dimensions
        d1 == [d0 EXCEPT !.padding.top = to_px(lookup(style, "padding-top", "padding", zero)),
                         !.padding.bottom = to_px(lookup(style, "padding-bottom", "padding", zero)),
                         !.border.top = to_px(lookup(style, "border-top", "border", zero)),
                         !.border.bottom = to_px(lookup(style, "border-bottom", "border", zero)),
                         !.margin.top = to_px(lookup(style, "margin-top", "margin", zero)),
                         !.margin.bottom = to_px(lookup(style, "margin-bottom", "margin", zero))]
        d2 == [d1 EXCEPT !.content.x = cb.content.x + d1.margin.left + d1.border.left + d1.padding.left,
                         !.content.y = cb.content.y + d1.margin.top + d1.border.top + d1.padding.top]
    IN  [self EXCEPT !.dimensions = d2]

\* LayoutBox::calculate_block_position
calculate_block_position(tree, self, cb) ==
    IF get_style_node(self) = 0 THEN NoStyleNode ELSE
    LET style == tree[get_style_node(self)]
        d0 == self.dimensions
        d1 == [d0 EXCEPT !.padding.top = to_px(lookup(style, "padding-top", "padding", zero)),
                         !.padding.bottom = to_px(lookup(style, "padding-bottom", "padding", zero)),
                         !.border.top = to_px(lookup(style, "border-top", "border", zero)),
                         !.border.bottom = to_px(lookup(style, "border-bottom", "border", zero)),
                         !.margin.top = to_px(lookup(style, "margin-top", "margin", zero)),
                         !.margin.bottom = to_px(lookup(style, "margin-bottom", "margin", zero))]
        d2 == [d1 EXCEPT !.content.x = cb.content.x + d1.margin.left + d1.border.left + d1.padding.left,
                         !.content.y = cb.content.y + cb.content.height
                                       + d1.margin.top + d1.border.top + d1.padding.top]
    IN  [self EXCEPT !.dimensions = d2]

\* A calculate_block_height that takes the px of any `height` value.
calculate_block_height_of_any_value(tree, self) ==
    LET h == value(tree[get_style_node(self)], "height")
    IN  IF h # None
        THEN [self EXCEPT !.dimensions.content.height = to_px(h[1])]
        ELSE self

\* LayoutBox::calculate_block_height
calculate_block_height(tree, self) ==
    IF get_style_node(self) = 0 THEN NoStyleNode ELSE
    LET h == value(tree[get_style_node(self)], "height")
    IN  IF h # None /\ h[1].kind = "Length" /\ h[1].s = "Px"
        THEN [self EXCEPT !.dimensions.content.height = h[1].n]
        ELSE self

RECURSIVE layout(_, _, _)
RECURSIVE layout_block_children_upto(_, _, _)

\* A loop that adds the height of the child's border box.
RECURSIVE layout_block_children_upto_border_box(_, _, _)
layout_block_children_upto_border_box(tree, self, k) ==
    IF k = 0 THEN self
    ELSE LET before == layout_block_children_upto_border_box(tree, self, k - 1)
             child == layout(tree, before.children[k], before.dimensions)
         IN  [before EXCEPT !.children[k] = child,
                            !.dimensions.content.height = @ + border_box(child.dimensions).height]

\* LayoutBox::layout_block_children: the loop over the first k children.
layout_block_children_upto(tree, self, k) ==
    IF k = 0 THEN self
    ELSE LET before == layout_block_children_upto(tree, self, k - 1)
         IN  IF before.box_type = "panic" THEN before
             ELSE LET child == layout(tree, before.children[k], before.dimensions)
                  IN  IF child.box_type = "panic" THEN child
                      ELSE [before EXCEPT !.children[k] = child,
                                          !.dimensions.content.height =
                                              @ + margin_box(child.dimensions).height]

layout_block_children(tree, self) == layout_block_children_upto(tree, self, Len(self.children))

\* A layout_block that resolves the height before it lays the children out.
layout_block_height_first(tree, self, cb) ==
    LET sized == calculate_block_width(tree, self, cb)
        placed == calculate_block_position(tree, sized, cb)
    IN  layout_block_children(tree, calculate_block_height(tree, placed))

\* LayoutBox::layout_block
layout_block(tree, self, cb) ==
    LET sized == calculate_block_width(tree, self, cb)
    IN  IF sized.box_type = "panic" THEN sized
        ELSE LET placed == calculate_block_position(tree, sized, cb)
                 filled == layout_block_children(tree, placed)
             IN  IF filled.box_type = "panic" THEN filled
                 ELSE calculate_block_height(tree, filled)

\* A layout that lays an Inline box out as a block.
layout_inline_as_block(tree, self, cb) ==
    IF self.box_type \in {"BlockNode", "InlineNode"} THEN layout_block(tree, self, cb) ELSE self

\* A layout that lays every box out as a block, the Anonymous boxes included.
layout_every_box_as_block(tree, self, cb) == layout_block(tree, self, cb)

\* A layout that passes through an Inline or Anonymous box to its children.
layout_through_inline(tree, self, cb) ==
    IF self.box_type = "BlockNode" THEN layout_block(tree, self, cb)
    ELSE [self EXCEPT !.children = [k \in DOMAIN @ |-> layout(tree, @[k], cb)]]

\* LayoutBox::layout
layout(tree, self, cb) ==
    IF self.box_type = "BlockNode" THEN layout_block(tree, self, cb) ELSE self

\* A layout_tree that leaves the content.height of the containing block as
\* the caller supplied it.
layout_tree_without_reset(tree, cb0) ==
    LET built == build_layout_tree(tree, 1)
    IN  [cb |-> cb0,
         root |-> IF built.box_type = "panic" THEN Panic ELSE layout(tree, built, cb0)]

\* layout_tree: `cb` is the caller's containing block after the call, `root`
\* the returned tree (Panic when build_layout_tree aborted).
layout_tree(tree, cb0) ==
    LET cb == [cb0 EXCEPT !.content.height = 0]
        built == build_layout_tree(tree, 1)
    IN  [cb |-> cb,
         root |-> IF built.box_type = "panic" THEN Panic ELSE layout(tree, built, cb)]

-----------------------------------------------------------------------------
(* painting.rs                                                             *)

\* css_parser.rs: struct Color { r, g, b }
Color(r, g, b) == [r |-> r, g |-> g, b |-> b]

\* DisplayCommand::SolidColor(Color, Rect)
SolidColor(color, rect) == [color |-> color, rect |-> rect]

\* get_color: the colour specified for the property `name`, None when the
\* value is no colour and for every Anonymous box.
get_color(tree, layout_box, name) ==
    IF layout_box.box_type \in {"BlockNode", "InlineNode"}
    THEN LET v == value(tree[layout_box.node], name)
         IN  IF v # None /\ v[1].kind = "Colorvalue" THEN Some(v[1].s) ELSE None
    ELSE None

\* render_background: the display list after the call.
render_background(tree, list, layout_box) ==
    LET color == get_color(tree, layout_box, "background")
    IN  IF color # None
        THEN Append(list, SolidColor(color[1], border_box(layout_box.dimensions)))
        ELSE list

\* render_borders: the display list after the call.
render_borders(tree, list, layout_box) ==
    LET color == get_color(tree, layout_box, "border-color")
        d == layout_box.dimensions
        bb == border_box(d)
    IN  IF color = None THEN list
        ELSE list \o
             <<SolidColor(color[1], Rect(bb.x, bb.y, d.border.left, bb.height)),
               SolidColor(color[1], Rect(bb.x + bb.width - d.border.right, bb.y,
                                         d.border.right, bb.height)),
               SolidColor(color[1], Rect(bb.x, bb.y, bb.width, d.border.top)),
               SolidColor(color[1], Rect(bb.x, bb.y + bb.height - d.border.bottom,
                                         bb.width, d.border.bottom))>>

\* render_layout_box: the display list after the call; render_children is its
\* loop over the first k children.
RECURSIVE render_layout_box(_, _, _)
RECURSIVE render_children(_, _, _, _)
render_children(tree, list, layout_box, k) ==
    IF k = 0 THEN list
    ELSE render_layout_box(tree, render_children(tree, list, layout_box, k - 1),
                           layout_box.children[k])

render_layout_box(tree, list, layout_box) ==
    render_children(tree,
                    render_borders(tree, render_background(tree, list, layout_box), layout_box),
                    layout_box, Len(layout_box.children))

\* build_display_list
build_display_list(tree, layout_root) == render_layout_box(tree, <<>>, layout_root)

white == Color(255, 255, 255)

\* Canvas::new.  pixels[i + 1] of the model is pixels[i] of the Vec.
Canvas_new(width, height) ==
    [pixels |-> [i \in 1..(width * height) |-> white], width |-> width, height |-> height]

\* `f as usize` for an f32: the fraction is dropped and a negative number
\* becomes 0.
as_usize(f) == IF f < 0 THEN 0 ELSE f \div 2

\* The result of a paint_item that indexed pixels out of bounds (panic!).
IndexOutOfBounds == [panic |-> "index out of bounds"]

\* Canvas::paint_item: the canvas after the call.  The loops write
\* pixels[x + y * width] for x0 <= x < x1 and y0 <= y < y1.
paint_item(self, cmd) ==
    LET x0 == as_usize(cmd.rect.x)
        x1 == x0 + as_usize(cmd.rect.width)
        y0 == as_usize(cmd.rect.y)
        y1 == y0 + as_usize(cmd.rect.height)
        written == {x + y * self.width : x \in x0..(x1 - 1), y \in y0..(y1 - 1)}
    IN  IF \E i \in written : i >= Len(self.pixels) THEN IndexOutOfBounds
        ELSE [self EXCEPT !.pixels = [i \in DOMAIN @ |->
                                        IF (i - 1) \in written THEN cmd.color ELSE @[i]]]

-----------------------------------------------------------------------------
(* The values of the variables a stage does not use.                       *)

NoElement == ElementData("", EmptyMap)
NoSelector == SimpleSelector(None, None, <<>>)
NoBox == [box_type |-> "none"]
NoCanvas == [pixels |-> <<>>, width |-> 0, height |-> 0]

CssIdle ==
    /\ input = <<>> /\ selectors = <<>> /\ specificities = <<>>
DomIdle ==
    /\ document = <<>>
StyleIdle ==
    /\ elem = NoElement /\ selector = NoSelector /\ matched = FALSE
    /\ stylesheet = <<>> /\ rules = <<>> /\ values = EmptyMap
LayoutIdle ==
    /\ styled = <<>> /\ containing_block = <<>> /\ root = NoBox /\ panicked = FALSE
PaintIdle ==
    /\ message = "" /\ display_list = <<>> /\ canvas = NoCanvas /\ item = 0
    /\ window = <<0, 0>>

-----------------------------------------------------------------------------
(* Stage 1: the selector list parser (css_parser.rs).                      *)

CssTags == {None, Some("h1"), Some("h2")}
CssIds == {None, Some("id")}
CssClasses == {<<>>, <<<<"c", "1">>, <<"c", "2">>>>}
CssSelectors == {SimpleSelector(t, i, c) : t \in CssTags, i \in CssIds, c \in CssClasses}

InitCss ==
    /\ pc = "parse_selectors"
    /\ \E n \in 1..MaxSelectors : input \in [1..n -> CssSelectors]
    /\ selectors = <<>>
    /\ specificities = <<>>
    /\ StyleIdle /\ LayoutIdle /\ DomIdle /\ PaintIdle

\* Parser::parse_selectors on the selector list `input`.
ParseSelectors ==
    /\ pc = "parse_selectors"
    /\ selectors' = parse_selectors(input)
    /\ pc' = "specificity"
    /\ UNCHANGED <<window, message, display_list, canvas, item, document, input, specificities, elem, selector, matched, stylesheet, rules, values,
                   styled, containing_block, root, panicked>>

\* Selector::specificity called on every parsed selector.
Specificity ==
    /\ pc = "specificity"
    /\ specificities' = [i \in DOMAIN selectors |-> specificity(selectors[i])]
    /\ pc' = "done"
    /\ UNCHANGED <<window, message, display_list, canvas, item, document, input, selectors, elem, selector, matched, stylesheet, rules, values,
                   styled, containing_block, root, panicked>>

NextCss == ParseSelectors \/ Specificity

SpecCss == InitCss /\ [][NextCss]_vars

-----------------------------------------------------------------------------
(* Stage 2a: selector matching (style.rs).                                 *)

MaxClassChars == 3     \* characters of a class attribute
MaxSelectorClasses == 2 \* class names of a selector

ClassChars == {"a", "b", " "}
ClassNames == {<<"a">>, <<"b">>}
MatchIdAttrs == {None, Some("main"), Some("other")}

\* The attribute map of an element with the given optional id and class.
Attributes(i, c) ==
    [k \in (IF i = None THEN {} ELSE {"id"}) \cup (IF c = None THEN {} ELSE {"class"}) |->
        IF k = "id" THEN i[1] ELSE c[1]]


InitMatch ==
    /\ pc = "matches"
    /\ \E t \in {"div", "p"} : \E i \in MatchIdAttrs :
          \/ elem = ElementData(t, Attributes(i, None))
          \/ \E n \in 0..MaxClassChars : \E c \in [1..n -> ClassChars] :
                elem = ElementData(t, Attributes(i, Some(c)))
    /\ \E t \in {None, Some("div")} : \E i \in {None, Some("main")} :
          \E n \in 0..MaxSelectorClasses : \E c \in [1..n -> ClassNames] :
             selector = SimpleSelector(t, i, c)
    /\ matched = FALSE
    /\ stylesheet = <<>> /\ rules = <<>> /\ values = EmptyMap
    /\ CssIdle /\ LayoutIdle /\ DomIdle /\ PaintIdle

\* matches(elem, selector)
Matches ==
    /\ pc = "matches"
    /\ matched' = matches(elem, selector)
    /\ pc' = "done"
    /\ UNCHANGED <<window, message, display_list, canvas, item, document, input, selectors, specificities, elem, selector, stylesheet, rules, values,
                   styled, containing_block, root, panicked>>

NextMatch == Matches

SpecMatch == InitMatch /\ [][NextMatch]_vars

-----------------------------------------------------------------------------
(* Stage 2b: the cascade for one element (style.rs).                       *)

MaxRuleSelectors == 2  \* selectors in one rule of a stylesheet handed to the resolver

StyleSelectors ==
    {SimpleSelector(Some("div"), None, <<>>),
     SimpleSelector(None, None, <<<<"a">>>>),
     SimpleSelector(None, Some("main"), <<>>)}

\* The selector lists the parser can hand over: parse_selectors sorts them.
StyleSelectorLists ==
    UNION {{parse_selectors(l) : l \in [1..n -> StyleSelectors]} : n \in 1..MaxRuleSelectors}

StyleProperties == {"width", "height"}

\* The stylesheets: the rule at position k declares one property, with the
\* value k px, so that a resolved value names the rule it came from.
Stylesheet(l, d) ==
    [k \in DOMAIN l |-> Rule(l[k], <<Declaration(d[k], Length(2 * k, "Px"))>>)]

StyleElements ==
    {ElementData("div", Attributes(Some("main"), Some(<<"b", " ", "a">>))),
     ElementData("div", Attributes(None, Some(<<"a">>))),
     ElementData("p", Attributes(Some("main"), None)),
     ElementData("p", Attributes(None, None))}

InitStyle ==
    /\ pc = "specified_values"
    /\ elem \in StyleElements
    /\ \E n \in 0..MaxRules : \E l \in [1..n -> StyleSelectorLists] :
          \E d \in [1..n -> StyleProperties] : stylesheet = Stylesheet(l, d)
    /\ selector = NoSelector /\ matched = FALSE
    /\ rules = <<>>
    /\ values = EmptyMap
    /\ CssIdle /\ LayoutIdle /\ DomIdle /\ PaintIdle

\* specified_values(elem, stylesheet)
SpecifiedValues ==
    /\ pc = "specified_values"
    /\ rules' = sorted_rules(elem, stylesheet)
    /\ values' = specified_values(elem, stylesheet)
    /\ pc' = "done"
    /\ UNCHANGED <<window, message, display_list, canvas, item, document, input, selectors, specificities, elem, selector, matched, stylesheet,
                   styled, containing_block, root, panicked>>

NextStyle == SpecifiedValues

SpecStyle == InitStyle /\ [][NextStyle]_vars


-----------------------------------------------------------------------------
(* Properties of the style resolver.                                       *)

\* The value the rule at index r of the stylesheet declares for property p:
\* that of its last declaration of p.
Declares(r, p) == \E k \in DOMAIN stylesheet[r].declarations : stylesheet[r].declarations[k].name = p
DeclaredValue(r, p) ==
    LET ds == stylesheet[r].declarations
        k == CHOOSE i \in DOMAIN ds : ds[i].name = p /\ \A j \in DOMAIN ds : ds[j].name = p => j <= i
    IN  ds[k].value

\* The matched rules other than those at positions i and j of `rules` that declare p.
OtherDeclaring(i, j, p) == {k \in DOMAIN rules \ {i, j} : Declares(rules[k].rule, p)}

\* C2: when two rules matching the element declare the same property with
\* different effective specificities, the resolved value is never the one of
\* the less specific rule, and it is the one of the more specific rule when no
\* third matching rule declares the property; the stylesheet order of the two
\* rules is irrelevant.
C2_HigherSpecificityWins ==
    pc = "done" =>
        \A i, j \in DOMAIN rules : \A p \in StyleProperties :
            (/\ Declares(rules[i].rule, p) /\ Declares(rules[j].rule, p)
             /\ cmp(rules[i].specificity, rules[j].specificity) = "Greater")
            => /\ p \in DOMAIN values
               /\ values[p] # DeclaredValue(rules[j].rule, p)
               /\ OtherDeclaring(i, j, p) = {} => values[p] = DeclaredValue(rules[i].rule, p)

\* C2 witness: the more specific of two matching rules that declare the same
\* property comes first in the stylesheet, and its value is the resolved one.
C2_Witness ==
    /\ pc = "done"
    /\ \E i, j \in DOMAIN rules : \E p \in StyleProperties :
          /\ Declares(rules[i].rule, p) /\ Declares(rules[j].rule, p)
          /\ cmp(rules[i].specificity, rules[j].specificity) = "Greater"
          /\ rules[i].rule < rules[j].rule
          /\ values[p] = DeclaredValue(rules[i].rule, p)

\* C3: the matched rules are held in ascending specificity, ties in
\* stylesheet order, and when two matching rules of equal effective
\* specificity declare the same property the resolved value is never the one
\* of the earlier rule, and is the one of the later rule when no third
\* matching rule declares the property.
C3_LaterRuleWinsTies ==
    pc = "done" =>
        /\ \A i, j \in DOMAIN rules :
              i < j => /\ cmp(rules[i].specificity, rules[j].specificity) # "Greater"
                       /\ rules[i].specificity = rules[j].specificity
                              => rules[i].rule < rules[j].rule
        /\ \A i, j \in DOMAIN rules : \A p \in StyleProperties :
              (/\ Declares(rules[i].rule, p) /\ Declares(rules[j].rule, p)
               /\ rules[i].specificity = rules[j].specificity
               /\ rules[i].rule < rules[j].rule)
              => /\ p \in DOMAIN values
                 /\ values[p] # DeclaredValue(rules[i].rule, p)
                 /\ OtherDeclaring(i, j, p) = {} => values[p] = DeclaredValue(rules[j].rule, p)

\* C3 witness: two matching rules of equal effective specificity declare the
\* same property.
C3_Witness ==
    /\ pc = "done"
    /\ \E i, j \in DOMAIN rules : \E p \in StyleProperties :
          /\ Declares(rules[i].rule, p) /\ Declares(rules[j].rule, p)
          /\ rules[i].specificity = rules[j].specificity
          /\ rules[i].rule < rules[j].rule
          /\ values[p] = DeclaredValue(rules[j].rule, p)

\* C4: every rule of the stylesheet occurs at most once among the matched
\* rules; it occurs iff one of its selectors matches the element; and its
\* effective specificity is that of its first matching selector, which no
\* matching selector of the rule exceeds.
C4_RuleMatchedOnce ==
    pc = "done" =>
        \A r \in DOMAIN stylesheet :
            LET occ == {i \in DOMAIN rules : rules[i].rule = r}
                sels == stylesheet[r].selectors
                hits == {k \in DOMAIN sels : matches(elem, sels[k])}
            IN  /\ Cardinality(occ) <= 1
                /\ occ # {} <=> hits # {}
                /\ \A i \in occ :
                      /\ \E k \in hits : /\ \A j \in hits : k <= j
                                         /\ rules[i].specificity = specificity(sels[k])
                      /\ \A k \in hits : cmp(specificity(sels[k]), rules[i].specificity) # "Greater"

\* C4 witness: a rule with two matching selectors of different specificity is
\* among the matched rules.
C4_Witness ==
    /\ pc = "done"
    /\ \E i \in DOMAIN rules :
          LET sels == stylesheet[rules[i].rule].selectors
          IN  \E k, j \in DOMAIN sels :
                 /\ matches(elem, sels[k]) /\ matches(elem, sels[j])
                 /\ specificity(sels[k]) # specificity(sels[j])

\* C5: matches_simple_selector is true exactly when the tag name (if any)
\* equals the element's, the id (if any) equals the element's id attribute,
\* and every class of the selector is one of the element's classes; a selector
\* with an id does not match an element without an id attribute.
C5_MatchesSimpleSelector ==
    pc = "done" =>
        /\ matched <=>
              /\ selector.tag_name = None \/ selector.tag_name = Some(elem.tag_name)
              /\ selector.id = None
                 \/ ("id" \in DOMAIN elem.attributes /\ selector.id = Some(elem.attributes["id"]))
              /\ \A k \in DOMAIN selector.class : selector.class[k] \in classes(elem)
        /\ (selector.id # None /\ "id" \notin DOMAIN elem.attributes) => ~matched

\* C5 witness: a selector with a tag name, an id and a class matches an
\* element that carries more classes than the selector names.
C5_Witness ==
    /\ pc = "done" /\ matched
    /\ selector.tag_name # None /\ selector.id # None /\ selector.class # <<>>
    /\ Cardinality(classes(elem)) > Cardinality(Range(selector.class))

-----------------------------------------------------------------------------
(* Properties of the selector list parser.                                 *)

\* The subsequence of the selectors of s with specificity k.
WithSpecificity(s, k) == SelectSeq(s, LAMBDA x : specificity(x) = k)

\* C6: parse_selectors returns a permutation of the parsed list, in descending
\* specificity, selectors of equal specificity in their original order.
C6_SelectorsSortedStable ==
    pc # "parse_selectors" =>
        /\ Len(selectors) = Len(input)
        /\ \A i, j \in DOMAIN selectors :
              i < j => cmp(specificity(selectors[i]), specificity(selectors[j])) # "Less"
        /\ \A x \in Range(input) \cup Range(selectors) :
              WithSpecificity(selectors, specificity(x)) = WithSpecificity(input, specificity(x))

\* C6 witness: a list with two different selectors of equal specificity
\* followed by a more specific one has been reordered.
C6_Witness ==
    /\ pc # "parse_selectors"
    /\ selectors # input
    /\ \E i, j, k \in DOMAIN input :
          /\ i < j /\ j < k
          /\ input[i] # input[j]
          /\ specificity(input[i]) = specificity(input[j])
          /\ cmp(specificity(input[k]), specificity(input[j])) = "Greater"

\* C7: the specificity of a selector is (1 if it has an id else 0, its number
\* of classes, 1 if it has a tag name else 0); the comparison is lexicographic
\* and a strict total order; a selector with an id outranks every selector
\* without one.
C7_Specificity ==
    pc = "done" =>
        /\ \A i \in DOMAIN selectors :
              specificities[i] = <<IF selectors[i].id # None THEN 1 ELSE 0,
                                   Len(selectors[i].class),
                                   IF selectors[i].tag_name # None THEN 1 ELSE 0>>
        /\ \A i, j \in DOMAIN selectors :
              LET a == specificities[i]
                  b == specificities[j]
              IN  /\ cmp(a, b) = "Equal" <=> a = b
                  /\ cmp(a, b) = "Less" <=> cmp(b, a) = "Greater"
                  /\ cmp(a, b) = "Less" <=>
                        \/ a[1] < b[1]
                        \/ a[1] = b[1] /\ a[2] < b[2]
                        \/ a[1] = b[1] /\ a[2] = b[2] /\ a[3] < b[3]
                  /\ (selectors[i].id # None /\ selectors[j].id = None) => cmp(a, b) = "Greater"
        /\ \A i, j, k \in DOMAIN selectors :
              (cmp(specificities[i], specificities[j]) = "Less"
               /\ cmp(specificities[j], specificities[k]) = "Less")
              => cmp(specificities[i], specificities[k]) = "Less"

\* C7 witness: an id-only selector and a selector with a tag name and two
\* classes but no id have both been measured.
C7_Witness ==
    /\ pc = "done"
    /\ \E i, j \in DOMAIN selectors :
          /\ selectors[i].id # None /\ selectors[i].class = <<>> /\ selectors[i].tag_name = None
          /\ selectors[j].id = None /\ Len(selectors[j].class) = 2 /\ selectors[j].tag_name # None
          /\ specificities[i] = <<1, 0, 0>> /\ specificities[j] = <<0, 2, 1>>


-----------------------------------------------------------------------------
(* Stage 3: the layout tree builder (layout.rs).                           *)

\* The elements of a finite set of numbers, in ascending order.
RECURSIVE Ascending(_)
Ascending(S) ==
    IF S = {} THEN <<>>
    ELSE LET m == CHOOSE x \in S : \A y \in S : x <= y
         IN  <<m>> \o Ascending(S \ {m})

\* The shapes of the trees of n nodes: node 1 is the root, and the parent of
\* every other node is a node of smaller index.
ParentVectors(n) == {f \in [1..n -> 0..n] : f[1] = 0 /\ \A i \in 2..n : 1 <= f[i] /\ f[i] < i}

\* The styled tree of the given shape and property maps.
StyledTree(parent, maps) ==
    [i \in DOMAIN parent |->
        StyledNode(i, maps[i], Ascending({j \in DOMAIN parent : parent[j] = i}))]

DisplayStyles ==
    {EmptyMap,
     [k \in {"display"} |-> Keyword("block")],
     [k \in {"display"} |-> Keyword("inline")],
     [k \in {"display"} |-> Keyword("none")]}

\* Every tree of at most MaxNodes nodes with those styles.
InitBuild ==
    /\ pc = "build_layout_tree"
    /\ \E n \in 1..MaxNodes : \E f \in ParentVectors(n) : \E m \in [1..n -> DisplayStyles] :
          styled = StyledTree(f, m)
    /\ containing_block = <<>>
    /\ root = NoBox
    /\ panicked = FALSE
    /\ CssIdle /\ StyleIdle /\ DomIdle /\ PaintIdle

\* build_layout_tree(styled root)
BuildLayoutTree ==
    /\ pc = "build_layout_tree"
    /\ LET built == build_layout_tree(styled, 1)
       IN  /\ panicked' = (built.box_type = "panic")
           /\ root' = IF built.box_type = "panic" THEN NoBox ELSE built
    /\ pc' = "done"
    /\ UNCHANGED <<window, message, display_list, canvas, item, document, input, selectors, specificities, elem, selector, matched, stylesheet,
                   rules, values, styled, containing_block>>

NextBuild == BuildLayoutTree

SpecBuild == InitBuild /\ [][NextBuild]_vars

-----------------------------------------------------------------------------
(* Properties of the layout tree builder.                                  *)

\* All boxes of a layout tree.
RECURSIVE Boxes(_)
Boxes(b) == {b} \cup UNION {Boxes(b.children[i]) : i \in DOMAIN b.children}

\* The parent of a styled node (0 for the root), and the node with its ancestors.
ParentOf(tree, n) ==
    IF \E q \in DOMAIN tree : n \in Range(tree[q].children)
    THEN CHOOSE q \in DOMAIN tree : n \in Range(tree[q].children)
    ELSE 0

RECURSIVE SelfAndAncestors(_, _)
SelfAndAncestors(tree, n) ==
    IF n = 0 THEN {} ELSE {n} \cup SelfAndAncestors(tree, ParentOf(tree, n))

\* C8: when the root is not display:none, a tree is returned and no box of it
\* refers to a styled node that is display:none or lies below such a node.
C8_NoHiddenNodeInTree ==
    (pc = "done" /\ display(styled[1]) # "None") =>
        /\ root.box_type \in {"BlockNode", "InlineNode"}
        /\ \A b \in Boxes(root) :
              /\ b.box_type = "AnonymousBlock" <=> b.node = 0
              /\ b.node # 0 =>
                    /\ b.node \in DOMAIN styled
                    /\ \A a \in SelfAndAncestors(styled, b.node) : display(styled[a]) # "None"

\* C8 witness: a tree was built from a styled tree with a display:none node
\* two levels below the root and a node below a display:none node.
C8_Witness ==
    /\ pc = "done" /\ ~panicked
    /\ \E n, m \in DOMAIN styled :
          /\ display(styled[n]) = "None" /\ ParentOf(styled, n) > 1
          /\ display(styled[m]) # "None"
          /\ \E a \in SelfAndAncestors(styled, m) : display(styled[a]) = "None"
    /\ Cardinality(Boxes(root)) > 1

\* The children of a styled node that generate a box: those not display:none.
Rendered(tree, n) == SelectSeq(tree[n].children, LAMBDA c : display(tree[c]) # "None")

\* The styled nodes of the children of a box, in order.
ChildNodes(b) == [i \in DOMAIN b.children |-> b.children[i].node]

\* C9: under a Block box, every maximal run of N consecutive inline children
\* (among the children that generate boxes) is held by exactly one Anonymous
\* box, whose children are exactly the N Inline boxes of the run in the
\* original order; the runs before and after a block child are held by two
\* different Anonymous boxes with the Block box of that child between them.
C9_InlineRunsGrouped ==
    (pc = "done" /\ ~panicked) =>
        \A b \in Boxes(root) : b.box_type = "BlockNode" =>
            LET kids == Rendered(styled, b.node)
                inline(i) == display(styled[kids[i]]) = "Inline"
                \* the indices of the child boxes of b that hold the box of kids[i]
                holders(i) == {a \in DOMAIN b.children :
                                  \/ b.children[a].node = kids[i]
                                  \/ /\ b.children[a].box_type = "AnonymousBlock"
                                     /\ kids[i] \in Range(ChildNodes(b.children[a]))}
            IN  /\ \A i, j \in DOMAIN kids :
                      (/\ i <= j
                       /\ \A k \in i..j : inline(k)
                       /\ (i = 1 \/ ~inline(i - 1))
                       /\ (j = Len(kids) \/ ~inline(j + 1)))
                      => \E a \in DOMAIN b.children :
                            /\ \A k \in i..j : holders(k) = {a}
                            /\ b.children[a].box_type = "AnonymousBlock"
                            /\ ChildNodes(b.children[a]) = SubSeq(kids, i, j)
                            /\ \A c \in DOMAIN b.children[a].children :
                                  b.children[a].children[c].box_type = "InlineNode"
                /\ \A i \in DOMAIN kids :
                      (i + 2 <= Len(kids) /\ inline(i) /\ ~inline(i + 1) /\ inline(i + 2))
                      => \E a \in DOMAIN b.children :
                            /\ holders(i) = {a}
                            /\ holders(i + 1) = {a + 1}
                            /\ holders(i + 2) = {a + 2}
                            /\ b.children[a + 1].box_type = "BlockNode"

\* C9 witness: a Block box whose children are an inline node, a block node
\* and an inline node has two Anonymous boxes around the Block box.
C9_Witness ==
    /\ pc = "done" /\ ~panicked
    /\ root.box_type = "BlockNode"
    /\ LET kids == styled[1].children
       IN  /\ Len(kids) = 3
           /\ display(styled[kids[1]]) = "Inline"
           /\ display(styled[kids[2]]) = "Block"
           /\ display(styled[kids[3]]) = "Inline"
           /\ Len(root.children) = 3
           /\ root.children[1].box_type = "AnonymousBlock"
           /\ root.children[3].box_type = "AnonymousBlock"

\* C10: build_layout_tree panics exactly when the root node is display:none;
\* when it panics no tree is returned, and otherwise the box of the root is.
C10_PanicIffRootHidden ==
    pc = "done" =>
        /\ panicked <=> display(styled[1]) = "None"
        /\ panicked => root.box_type = "none"
        /\ ~panicked => (root.box_type \in {"BlockNode", "InlineNode"} /\ root.node = 1)

\* C10 witness: the root is display:none, has children, and the call panicked
\* without returning a tree.
C10_Witness ==
    /\ pc = "done" /\ panicked
    /\ display(styled[1]) = "None"
    /\ styled[1].children # <<>>
    /\ root.box_type = "none"


\* C26: in a tree build_layout_tree returns, the root is no Anonymous box;
\* an Anonymous box is a child of a Block box only, has at least one child,
\* and all its children are Inline boxes; no two adjacent children of a Block
\* box are both Anonymous; and no child of a Block box is an Inline box.
C26_TreeInvariants ==
    (pc = "done" /\ ~panicked) =>
        /\ root.box_type # "AnonymousBlock"
        /\ \A b \in Boxes(root) :
              /\ \A i \in DOMAIN b.children :
                    b.children[i].box_type = "AnonymousBlock" =>
                        /\ b.box_type = "BlockNode"
                        /\ b.children[i].children # <<>>
                        /\ \A j \in DOMAIN b.children[i].children :
                              b.children[i].children[j].box_type = "InlineNode"
              /\ b.box_type = "BlockNode" =>
                    /\ \A i \in DOMAIN b.children : b.children[i].box_type # "InlineNode"
                    /\ \A i \in 1..(Len(b.children) - 1) :
                          ~(/\ b.children[i].box_type = "AnonymousBlock"
                            /\ b.children[i + 1].box_type = "AnonymousBlock")

\* C26 witness: the children of a Block root are an Anonymous box with two
\* Inline boxes and a Block box.
C26_Witness ==
    /\ pc = "done" /\ ~panicked
    /\ root.box_type = "BlockNode"
    /\ Len(root.children) = 2
    /\ root.children[1].box_type = "AnonymousBlock"
    /\ Len(root.children[1].children) = 2
    /\ root.children[2].box_type = "BlockNode"

\* The child box of b that is an Anonymous box holding the box of node n
\* (0 when there is none).
HolderOf(b, n) ==
    LET holders == {a \in DOMAIN b.children :
                       /\ b.children[a].box_type = "AnonymousBlock"
                       /\ n \in Range(ChildNodes(b.children[a]))}
    IN  IF Cardinality(holders) = 1 THEN CHOOSE a \in holders : TRUE ELSE 0

\* C28: under a Block box every inline child of the node lies in exactly one
\* Anonymous box, and two inline children lie in the same Anonymous box
\* exactly when no block child stands between them: display:none children
\* between them do not separate them.
C28_HiddenChildKeepsRun ==
    (pc = "done" /\ ~panicked) =>
        \A b \in Boxes(root) : b.box_type = "BlockNode" =>
            LET kids == styled[b.node].children
                inline(i) == display(styled[kids[i]]) = "Inline"
            IN  /\ \A i \in DOMAIN kids : inline(i) => HolderOf(b, kids[i]) # 0
                /\ \A i, j \in DOMAIN kids :
                      (i < j /\ inline(i) /\ inline(j)) =>
                          (HolderOf(b, kids[i]) = HolderOf(b, kids[j])
                           <=> \A k \in (i + 1)..(j - 1) : display(styled[kids[k]]) # "Block")

\* C28 witness: the children of a Block root are an inline node, a hidden
\* node and an inline node, and the tree has one Anonymous box with the two
\* Inline boxes.
C28_Witness ==
    /\ pc = "done" /\ ~panicked
    /\ root.box_type = "BlockNode"
    /\ LET kids == styled[1].children
       IN  /\ Len(kids) = 3
           /\ display(styled[kids[1]]) = "Inline"
           /\ display(styled[kids[2]]) = "None"
           /\ display(styled[kids[3]]) = "Inline"
           /\ Len(root.children) = 1
           /\ root.children[1].box_type = "AnonymousBlock"
           /\ ChildNodes(root.children[1]) = <<kids[1], kids[3]>>

-----------------------------------------------------------------------------
(* Stage 2c: style_tree (style.rs).                                        *)

MaxDomNodes == 3       \* nodes of a document handed to style_tree
MaxTreeRules == 2      \* rules of a stylesheet handed to style_tree

\* The node types of a document: a text, and two elements.
TreeNodeTypes ==
    {Text("t"),
     Element(ElementData("div", Attributes(Some("main"), Some(<<"a">>)))),
     Element(ElementData("p", Attributes(None, None)))}

\* The rules of a stylesheet: `display` with a keyword, a length and a
\* colour for its value, and a rule that declares another property.
TreeRules ==
    {Rule(<<SimpleSelector(Some("div"), None, <<>>)>>, <<Declaration("display", Keyword("block"))>>),
     Rule(<<SimpleSelector(None, None, <<<<"a">>>>)>>, <<Declaration("display", Keyword("none"))>>),
     Rule(<<SimpleSelector(None, Some("main"), <<>>)>>,
          <<Declaration("display", Keyword("inline-block"))>>),
     Rule(<<SimpleSelector(Some("p"), None, <<>>)>>, <<Declaration("display", Length(8, "Px"))>>),
     Rule(<<SimpleSelector(Some("div"), None, <<>>)>>,
          <<Declaration("display", Colorvalue("#cc0000"))>>),
     Rule(<<SimpleSelector(Some("p"), None, <<>>)>>, <<Declaration("color", Colorvalue("#cc0000"))>>)}

\* The document of the given shape and node types.
Document(parent, types) ==
    [i \in DOMAIN parent |-> Node(Ascending({j \in DOMAIN parent : parent[j] = i}), types[i])]

\* Every document of at most MaxDomNodes nodes whose texts are leaves
\* (dom::text makes a node without children), and every stylesheet of at
\* most MaxTreeRules of the rules.
InitTree ==
    /\ pc = "style_tree"
    /\ \E n \in 1..MaxDomNodes : \E f \in ParentVectors(n) : \E t \in [1..n -> TreeNodeTypes] :
          /\ \A i \in 1..n : t[i].kind = "Text" => \A j \in 1..n : f[j] # i
          /\ document = Document(f, t)
    /\ \E n \in 0..MaxTreeRules : stylesheet \in [1..n -> TreeRules]
    /\ styled = <<>>
    /\ elem = NoElement /\ selector = NoSelector /\ matched = FALSE
    /\ rules = <<>> /\ values = EmptyMap
    /\ containing_block = <<>> /\ root = NoBox /\ panicked = FALSE
    /\ CssIdle /\ PaintIdle

\* style_tree(document root, stylesheet)
StyleTree ==
    /\ pc = "style_tree"
    /\ styled' = style_tree(document, 1, stylesheet)
    /\ pc' = "done"
    /\ UNCHANGED <<window, message, display_list, canvas, item, document, input, selectors, specificities, elem, selector, matched, stylesheet,
                   rules, values, containing_block, root, panicked>>

NextTree == StyleTree

SpecTree == InitTree /\ [][NextTree]_vars

-----------------------------------------------------------------------------
(* Properties of style_tree.                                               *)

\* All styled nodes of a nested styled tree.
RECURSIVE StyledNodes(_)
StyledNodes(s) == {s} \cup UNION {StyledNodes(s.children[i]) : i \in DOMAIN s.children}

\* The document nodes the styled nodes of a tree refer to, in pre-order.
RECURSIVE NodeRefs(_)
RECURSIVE NodeRefsOfFirst(_, _)
NodeRefsOfFirst(children, k) ==
    IF k = 0 THEN <<>> ELSE NodeRefsOfFirst(children, k - 1) \o NodeRefs(children[k])
NodeRefs(s) == <<s.node>> \o NodeRefsOfFirst(s.children, Len(s.children))

\* The styled tree s has the shape of the document below node n.
RECURSIVE SameShape(_, _)
SameShape(s, n) ==
    /\ s.node = n
    /\ Len(s.children) = Len(document[n].children)
    /\ \A k \in 1..Len(s.children) : SameShape(s.children[k], document[n].children[k])

\* C11: the styled tree has the shape of the document: the styled root refers
\* to the document root, every styled node has one styled child for each child
\* of its document node, in the same order; every document node is referred
\* to by exactly one styled node (none is pruned, display:none or not); and
\* the styled node of a Text node has an empty property map.
C11_StyleTreeShape ==
    pc = "done" =>
        /\ SameShape(styled, 1)
        /\ Len(NodeRefs(styled)) = Len(document)
        /\ Range(NodeRefs(styled)) = DOMAIN document
        /\ \A s \in StyledNodes(styled) :
              document[s.node].node_type.kind = "Text" => s.specified_values = EmptyMap

\* C11 witness: a document of three nodes, one of them a text, was styled, and
\* a styled node that is display:none is in the tree with its child.
C11_Witness ==
    /\ pc = "done"
    /\ Len(document) = 3
    /\ \E i \in DOMAIN document : document[i].node_type.kind = "Text"
    /\ \E s \in StyledNodes(styled) : display(s) = "None" /\ s.children # <<>>

\* No selector of a rule of the stylesheet matches the element.
MatchesNoRule(e) ==
    \A r \in DOMAIN stylesheet : \A k \in DOMAIN stylesheet[r].selectors :
        ~matches(e, stylesheet[r].selectors[k])

\* C12: display is Block exactly for the value Keyword("block"), None exactly
\* for Keyword("none") and Inline in every other case; the styled node of a
\* Text node and that of an element no rule matches are Inline.
C12_Display ==
    pc = "done" =>
        \A s \in StyledNodes(styled) :
            LET m == s.specified_values
                is(v) == "display" \in DOMAIN m /\ m["display"] = v
                type == document[s.node].node_type
            IN  /\ display(s) = "Block" <=> is(Keyword("block"))
                /\ display(s) = "None" <=> is(Keyword("none"))
                /\ display(s) = "Inline" <=> (~is(Keyword("block")) /\ ~is(Keyword("none")))
                /\ type.kind = "Text" => display(s) = "Inline"
                /\ (type.kind = "Element" /\ MatchesNoRule(type.data)) => display(s) = "Inline"

\* C12 witness: the styled tree holds a Block node, an Inline node whose
\* `display` is a length, and the Inline node of a text.
C12_Witness ==
    /\ pc = "done"
    /\ \E s, t, u \in StyledNodes(styled) :
          /\ display(s) = "Block"
          /\ "display" \in DOMAIN t.specified_values
          /\ t.specified_values["display"].kind = "Length"
          /\ display(t) = "Inline"
          /\ document[u.node].node_type.kind = "Text" /\ display(u) = "Inline"

-----------------------------------------------------------------------------
(* Stage 4: layout_tree (layout.rs).                                       *)

\* n px as an f32 of the model (half pixels).
Px(n) == Length(2 * n, "Px")

\* The property map of the listed <<name, None or Some(value)>> pairs that
\* are Some.
Properties(pairs) ==
    [k \in {pairs[i][1] : i \in {j \in DOMAIN pairs : pairs[j][2] # None}} |->
        (CHOOSE v \in {pairs[i][2] : i \in {j \in DOMAIN pairs : pairs[j][1] = k}} : TRUE)[1]]

\* The root styles: a block with every combination of width, margin-left,
\* margin-right and margin, an inline root and a hidden root.
RootStyles ==
    {Properties(<<<<"display", Some(Keyword("block"))>>, <<"width", w>>, <<"margin-left", ml>>,
                  <<"margin-right", mr>>, <<"margin", m>>>>) :
        w \in {None, Some(Px(8))},
        ml \in {None, Some(auto), Some(Px(3))},
        mr \in {None, Some(auto), Some(Px(1))},
        m \in {None, Some(auto), Some(Px(2))}}
    \cup {EmptyMap, Properties(<<<<"display", Some(Keyword("none"))>>>>)}

\* The styles of the other nodes: a block of auto width with a margin; a
\* narrow block with auto margins and a height; a wide block with top and
\* bottom edges and a keyword for its height; an inline node that carries box
\* properties.
ChildStyles ==
    {Properties(<<<<"display", Some(Keyword("block"))>>, <<"margin-left", Some(Px(3))>>>>),
     Properties(<<<<"display", Some(Keyword("block"))>>, <<"width", Some(Px(4))>>,
                  <<"margin", Some(auto)>>, <<"height", Some(Px(3))>>,
                  <<"border-bottom", Some(Px(1))>>>>),
     Properties(<<<<"display", Some(Keyword("block"))>>, <<"width", Some(Px(30))>>,
                  <<"margin-left", Some(auto)>>, <<"margin", Some(Px(2))>>,
                  <<"margin-top", Some(Px(1))>>, <<"padding", Some(Px(1))>>,
                  <<"height", Some(auto)>>>>),
     Properties(<<<<"width", Some(Px(4))>>, <<"height", Some(Px(4))>>,
                  <<"margin", Some(Px(2))>>, <<"padding-top", Some(Px(1))>>>>)}

\* The containing blocks the caller supplies: a narrow viewport away from the
\* origin with a height left over from an earlier use, and a wide one.
Viewports ==
    {[DefaultDimensions EXCEPT !.content = Rect(2 * 4, 2 * 6, 2 * 2, 2 * 24)],
     [DefaultDimensions EXCEPT !.content = Rect(0, 2 * 1, 2 * 20, 0)]}

InitLayout ==
    /\ pc = "layout_tree"
    /\ \E n \in 1..MaxLayoutNodes : \E f \in ParentVectors(n) :
          \E r \in RootStyles : \E m \in [2..n -> ChildStyles] :
             styled = StyledTree(f, [i \in 1..n |-> IF i = 1 THEN r ELSE m[i]])
    /\ containing_block \in Viewports
    /\ root = NoBox
    /\ panicked = FALSE
    /\ CssIdle /\ StyleIdle /\ DomIdle /\ PaintIdle

\* layout_tree(styled root, &mut containing_block)
LayoutTree ==
    /\ pc = "layout_tree"
    /\ LET done == layout_tree(styled, containing_block)
       IN  /\ containing_block' = done.cb
           /\ panicked' = (done.root.box_type = "panic")
           /\ root' = IF done.root.box_type = "panic" THEN NoBox ELSE done.root
    /\ pc' = "done"
    /\ UNCHANGED <<window, message, display_list, canvas, item, document, input, selectors, specificities, elem, selector, matched, stylesheet,
                   rules, values, styled>>

NextLayout == LayoutTree

SpecLayout == InitLayout /\ [][NextLayout]_vars

-----------------------------------------------------------------------------
(* Properties of the block layout engine.                                  *)

\* The Block boxes that were laid out, each with its containing block: the
\* root against cb, the children of a laid-out Block box against that box.
RECURSIVE LaidOut(_, _)
LaidOut(b, cb) ==
    IF b.box_type = "BlockNode"
    THEN {<<b, cb>>} \cup UNION {LaidOut(b.children[i], b.dimensions) : i \in DOMAIN b.children}
    ELSE {}

\* The width of the margin box as the sum of its seven parts.
SevenSum(d) ==
    d.margin.left + d.border.left + d.padding.left + d.content.width
    + d.padding.right + d.border.right + d.margin.right

\* The node's width is auto.
WidthAuto(node) ==
    "width" \notin DOMAIN node.specified_values \/ node.specified_values["width"] = auto

\* The px of a horizontal edge property as specified: the side, else the
\* shorthand, else 0; auto and other keywords count 0.
SpecifiedPx(node, name, shorthand) ==
    LET m == node.specified_values
        v == IF name \in DOMAIN m THEN Some(m[name])
             ELSE IF shorthand \in DOMAIN m THEN Some(m[shorthand]) ELSE None
    IN  IF v # None /\ v[1].kind = "Length" THEN v[1].n ELSE 0

\* The width of a box was resolved by the branch for an auto width and a
\* negative underflow.
AutoWidthNegativeUnderflow(node, cb) ==
    /\ WidthAuto(node)
    /\ SpecifiedPx(node, "margin-left", "margin") + SpecifiedPx(node, "margin-right", "margin")
       + SpecifiedPx(node, "border-left", "border") + SpecifiedPx(node, "border-right", "border")
       + SpecifiedPx(node, "padding-left", "padding") + SpecifiedPx(node, "padding-right", "padding")
       > cb.content.width

\* C1: after layout, the seven horizontal parts of every laid-out Block box
\* whose width was not resolved by the auto-width negative-underflow branch
\* add up to the content width of its containing block.
C1_WidthEquation ==
    (pc = "done" /\ ~panicked) =>
        \A p \in LaidOut(root, containing_block) :
            ~AutoWidthNegativeUnderflow(styled[p[1].node], p[2])
            => SevenSum(p[1].dimensions) = p[2].content.width

\* C1 witness: a Block child with a fixed width and two auto margins was laid
\* out inside a Block root and is centred with margins of a positive size.
C1_Witness ==
    /\ pc = "done" /\ ~panicked
    /\ \E p \in LaidOut(root, containing_block) :
          /\ p[1].node # 1
          /\ ~WidthAuto(styled[p[1].node])
          /\ p[1].dimensions.margin.left > 0
          /\ p[1].dimensions.margin.left = p[1].dimensions.margin.right
          /\ p[2].content.width < containing_block.content.width

\* The value of an edge property as the stylesheet gives it: that of the
\* side, else that of the shorthand, else none.
Specified(node, name, shorthand) ==
    LET m == node.specified_values
    IN  IF name \in DOMAIN m THEN Some(m[name])
        ELSE IF shorthand \in DOMAIN m THEN Some(m[shorthand]) ELSE None

\* The specified width in px (0 for auto), and the seven-quantity sum with
\* every auto counted as 0.
WidthPx(node) ==
    IF ~WidthAuto(node) /\ node.specified_values["width"].kind = "Length"
    THEN node.specified_values["width"].n ELSE 0

EdgesPx(node) ==
    SpecifiedPx(node, "margin-left", "margin") + SpecifiedPx(node, "margin-right", "margin")
    + SpecifiedPx(node, "border-left", "border") + SpecifiedPx(node, "border-right", "border")
    + SpecifiedPx(node, "padding-left", "padding") + SpecifiedPx(node, "padding-right", "padding")

Total(node) == WidthPx(node) + EdgesPx(node)

\* C13 as stated: a laid-out Block box with a fixed width that fits and with
\* no margin-left, margin-right or margin property has both horizontal margins
\* auto, so each is half of the underflow.
C13_MarginsDefaultAuto ==
    (pc = "done" /\ ~panicked) =>
        \A p \in LaidOut(root, containing_block) :
            LET node == styled[p[1].node]
                d == p[1].dimensions
            IN  (/\ ~WidthAuto(node)
                 /\ Specified(node, "margin-left", "margin") = None
                 /\ Specified(node, "margin-right", "margin") = None
                 /\ Total(node) <= p[2].content.width)
                => /\ d.margin.left = (p[2].content.width - Total(node)) \div 2
                   /\ d.margin.right = (p[2].content.width - Total(node)) \div 2

\* C13 amended: margin-left (margin-right) takes the value of the side, else
\* that of `margin`, else 0, as border and padding sides do.  A margin-left
\* that resolves to a length is the used margin.left, so it is 0 when no
\* property sets it; next to a margin-left that is auto, an unset margin-right
\* stays 0 and margin-left takes the whole underflow; and a block with a
\* fixed width that fits and no margin property at all has margin.left 0 and
\* the whole underflow in margin.right.
C13_MarginsDefaultZero ==
    (pc = "done" /\ ~panicked) =>
        \A p \in LaidOut(root, containing_block) :
            LET node == styled[p[1].node]
                d == p[1].dimensions
                ml == Specified(node, "margin-left", "margin")
                mr == Specified(node, "margin-right", "margin")
                fits == ~WidthAuto(node) /\ Total(node) <= p[2].content.width
                underflow == p[2].content.width - Total(node)
            IN  /\ d.border.left = SpecifiedPx(node, "border-left", "border")
                /\ d.border.right = SpecifiedPx(node, "border-right", "border")
                /\ d.padding.left = SpecifiedPx(node, "padding-left", "padding")
                /\ d.padding.right = SpecifiedPx(node, "padding-right", "padding")
                /\ ml # Some(auto) => d.margin.left = SpecifiedPx(node, "margin-left", "margin")
                /\ (fits /\ ml = Some(auto) /\ mr = None)
                   => (d.margin.left = underflow /\ d.margin.right = 0)
                /\ (fits /\ ml = None /\ mr = None)
                   => (d.margin.left = 0 /\ d.margin.right = underflow)

\* C13 witness: a Block box with a fixed width and no margin property was laid
\* out in a wider containing block: its margin.left is 0 and its margin.right
\* is the underflow.
C13_Witness ==
    /\ pc = "done" /\ ~panicked
    /\ \E p \in LaidOut(root, containing_block) :
          LET node == styled[p[1].node]
          IN  /\ ~WidthAuto(node)
              /\ Specified(node, "margin-left", "margin") = None
              /\ Specified(node, "margin-right", "margin") = None
              /\ Total(node) < p[2].content.width
              /\ p[1].dimensions.margin.left = 0
              /\ p[1].dimensions.margin.right = p[2].content.width - Total(node)

\* C14: a laid-out Block box whose width is not auto and whose seven-quantity
\* sum (autos counted as 0) exceeds the content width of its containing block
\* keeps its specified width, has for margin.left its specified value (0 for
\* auto) and for margin.right its specified value (0 for auto) plus the
\* negative underflow.
C14_OverflowingFixedWidth ==
    (pc = "done" /\ ~panicked) =>
        \A p \in LaidOut(root, containing_block) :
            LET node == styled[p[1].node]
                d == p[1].dimensions
            IN  (~WidthAuto(node) /\ Total(node) > p[2].content.width)
                => /\ d.content.width = WidthPx(node)
                   /\ d.margin.left = SpecifiedPx(node, "margin-left", "margin")
                   /\ d.margin.right = SpecifiedPx(node, "margin-right", "margin")
                                       + (p[2].content.width - Total(node))

\* C14 witness: a Block box with a fixed width wider than its containing
\* block and an auto margin-left was laid out: margin.left is 0 and
\* margin.right is negative.
C14_Witness ==
    /\ pc = "done" /\ ~panicked
    /\ \E p \in LaidOut(root, containing_block) :
          LET node == styled[p[1].node]
          IN  /\ ~WidthAuto(node) /\ Total(node) > p[2].content.width
              /\ Specified(node, "margin-left", "margin") = Some(auto)
              /\ p[1].dimensions.margin.left = 0
              /\ p[1].dimensions.margin.right < 0
              /\ p[1].dimensions.content.width > p[2].content.width

\* C15: a laid-out Block box whose width is not auto, whose margin-left and
\* margin-right are both auto and whose seven-quantity sum does not exceed
\* the content width of its containing block has equal margin.left and
\* margin.right, each half of the underflow.
C15_AutoMarginsCentre ==
    (pc = "done" /\ ~panicked) =>
        \A p \in LaidOut(root, containing_block) :
            LET node == styled[p[1].node]
                d == p[1].dimensions
            IN  (/\ ~WidthAuto(node)
                 /\ Specified(node, "margin-left", "margin") = Some(auto)
                 /\ Specified(node, "margin-right", "margin") = Some(auto)
                 /\ Total(node) <= p[2].content.width)
                => /\ d.margin.left = d.margin.right
                   /\ d.margin.left + d.margin.right = p[2].content.width - Total(node)
                   /\ d.content.width = WidthPx(node)

\* C15 witness: a Block box with a fixed width and two auto margins was laid
\* out with an underflow of an odd number of px: each margin is a whole
\* number of px and a half.
C15_Witness ==
    /\ pc = "done" /\ ~panicked
    /\ \E p \in LaidOut(root, containing_block) :
          LET node == styled[p[1].node]
          IN  /\ ~WidthAuto(node)
              /\ Specified(node, "margin-left", "margin") = Some(auto)
              /\ Specified(node, "margin-right", "margin") = Some(auto)
              /\ p[1].dimensions.margin.left > 0
              /\ p[1].dimensions.margin.left % 2 = 1
              /\ p[1].dimensions.margin.right = p[1].dimensions.margin.left

\* C16: a laid-out Block box whose width is auto has for margin.left its
\* specified value (0 for auto); when the underflow is not negative its
\* content.width is the underflow and margin.right its specified value (0 for
\* auto), so with no margin, border and padding the content.width is that of
\* the containing block; when the underflow is negative its content.width is
\* 0 and margin.right its specified value plus the underflow.  The
\* content.width is never negative.
C16_AutoWidth ==
    (pc = "done" /\ ~panicked) =>
        \A p \in LaidOut(root, containing_block) :
            LET node == styled[p[1].node]
                d == p[1].dimensions
                underflow == p[2].content.width - EdgesPx(node)
            IN  WidthAuto(node)
                => /\ d.margin.left = SpecifiedPx(node, "margin-left", "margin")
                   /\ underflow >= 0
                      => /\ d.content.width = underflow
                         /\ d.margin.right = SpecifiedPx(node, "margin-right", "margin")
                   /\ (underflow >= 0 /\ EdgesPx(node) = 0) => d.content.width = p[2].content.width
                   /\ underflow < 0
                      => /\ d.content.width = 0
                         /\ d.margin.right = SpecifiedPx(node, "margin-right", "margin") + underflow
                   /\ d.content.width >= 0

\* C16 witness: a Block root of auto width without edges fills its containing
\* block, and its Block child of auto width, whose margin is wider than the
\* root, has content.width 0 and a negative margin.right.
C16_Witness ==
    /\ pc = "done" /\ ~panicked
    /\ root.box_type = "BlockNode"
    /\ WidthAuto(styled[1]) /\ EdgesPx(styled[1]) = 0
    /\ root.dimensions.content.width = containing_block.content.width
    /\ root.dimensions.content.width > 0
    /\ \E i \in DOMAIN root.children :
          LET b == root.children[i]
          IN  /\ b.box_type = "BlockNode"
              /\ WidthAuto(styled[b.node])
              /\ EdgesPx(styled[b.node]) > root.dimensions.content.width
              /\ b.dimensions.content.width = 0
              /\ b.dimensions.margin.right < 0

\* The content.height of a Block box when its child k is laid out: the
\* margin-box heights of the children before k, added to the 0 the box
\* starts with.
RECURSIVE HeightBefore(_, _)
HeightBefore(b, k) ==
    IF k <= 1 THEN 0
    ELSE HeightBefore(b, k - 1) + margin_box(b.children[k - 1].dimensions).height

\* The Block boxes that were laid out, each with its containing block as it
\* was when the box was laid out.
RECURSIVE LaidOutAt(_, _)
LaidOutAt(b, cb) ==
    IF b.box_type = "BlockNode"
    THEN {<<b, cb>>}
         \cup UNION {LaidOutAt(b.children[i],
                               [b.dimensions EXCEPT !.content.height = HeightBefore(b, i)]) :
                        i \in DOMAIN b.children}
    ELSE {}

\* C17: every laid-out Block box has its top and bottom padding, border and
\* margin from the side property, else the shorthand, else 0; its content.x
\* is the containing block's content.x plus margin.left, border.left and
\* padding.left; and its content.y is the containing block's content.y plus
\* the containing block's content.height when the box was laid out plus
\* margin.top, border.top and padding.top.
C17_BlockPosition ==
    (pc = "done" /\ ~panicked) =>
        \A p \in LaidOutAt(root, containing_block) :
            LET node == styled[p[1].node]
                d == p[1].dimensions
                cb == p[2]
            IN  /\ d.padding.top = SpecifiedPx(node, "padding-top", "padding")
                /\ d.padding.bottom = SpecifiedPx(node, "padding-bottom", "padding")
                /\ d.border.top = SpecifiedPx(node, "border-top", "border")
                /\ d.border.bottom = SpecifiedPx(node, "border-bottom", "border")
                /\ d.margin.top = SpecifiedPx(node, "margin-top", "margin")
                /\ d.margin.bottom = SpecifiedPx(node, "margin-bottom", "margin")
                /\ d.content.x = cb.content.x + d.margin.left + d.border.left + d.padding.left
                /\ d.content.y = cb.content.y + cb.content.height
                                 + d.margin.top + d.border.top + d.padding.top

\* C17 witness: a Block box with a top margin set by the side property and a
\* top padding set by the shorthand was laid out below an earlier sibling, in
\* a containing block away from the origin.
C17_Witness ==
    /\ pc = "done" /\ ~panicked
    /\ \E p \in LaidOutAt(root, containing_block) :
          LET node == styled[p[1].node]
              d == p[1].dimensions
          IN  /\ p[2].content.height > 0
              /\ p[2].content.x > 0
              /\ "margin-top" \in DOMAIN node.specified_values
              /\ "margin" \in DOMAIN node.specified_values
              /\ d.margin.top > 0 /\ d.margin.top # d.margin.bottom
              /\ d.padding.top > 0
              /\ d.content.x > p[2].content.x
              /\ d.content.y > p[2].content.y + p[2].content.height

\* The Block children of a box in child order, the top and the bottom of the
\* margin box of a box, and the node has an explicit height in px.
BlockChildren(b) == SelectSeq(b.children, LAMBDA c : c.box_type = "BlockNode")
MarginTop(b) == margin_box(b.dimensions).y
MarginBottom(b) == margin_box(b.dimensions).y + margin_box(b.dimensions).height
HeightPx(node) ==
    /\ "height" \in DOMAIN node.specified_values
    /\ node.specified_values["height"].kind = "Length"
    /\ node.specified_values["height"].s = "Px"

\* C18: the Block children of a laid-out Block box are stacked in child
\* order: the margin box of the first starts at the content.y of the parent,
\* the margin box of each later one starts where that of the one before ends,
\* the margin box of the last ends at the parent's content.y plus the sum of
\* the margin-box heights of all children, and that sum is the content.height
\* of the parent unless the parent has an explicit height.
C18_BlockChildrenStacked ==
    (pc = "done" /\ ~panicked) =>
        \A p \in LaidOut(root, containing_block) :
            LET b == p[1]
                kids == BlockChildren(b)
                sum == HeightBefore(b, Len(b.children) + 1)
            IN  /\ kids # <<>> => MarginTop(kids[1]) = b.dimensions.content.y
                /\ \A i \in 2..Len(kids) : MarginTop(kids[i]) = MarginBottom(kids[i - 1])
                /\ kids # <<>> => MarginBottom(kids[Len(kids)]) = b.dimensions.content.y + sum
                /\ ~HeightPx(styled[b.node]) => b.dimensions.content.height = sum

\* C18 witness: a Block root without explicit height has two Block children
\* with margins and margin boxes of different positive heights, the second
\* below the first.
C18_Witness ==
    /\ pc = "done" /\ ~panicked
    /\ root.box_type = "BlockNode" /\ ~HeightPx(styled[1])
    /\ Len(root.children) = 2
    /\ \A i \in 1..2 : root.children[i].box_type = "BlockNode"
    /\ margin_box(root.children[1].dimensions).height > 0
    /\ margin_box(root.children[1].dimensions).height
       # border_box(root.children[1].dimensions).height
    /\ MarginTop(root.children[2]) > root.dimensions.content.y
    /\ root.dimensions.content.height > margin_box(root.children[1].dimensions).height

\* C19: after layout the content.height of a laid-out Block box is the
\* explicit px height of its node if it has one, whatever its children are;
\* otherwise, also when `height` is a keyword, it is the sum of the margin-box
\* heights of its children, which is 0 for a box without children.
C19_BlockHeight ==
    (pc = "done" /\ ~panicked) =>
        \A p \in LaidOut(root, containing_block) :
            LET b == p[1]
                node == styled[b.node]
            IN  /\ HeightPx(node) => b.dimensions.content.height = node.specified_values["height"].n
                /\ ~HeightPx(node)
                   => b.dimensions.content.height = HeightBefore(b, Len(b.children) + 1)
                /\ (~HeightPx(node) /\ b.children = <<>>) => b.dimensions.content.height = 0

\* C19 witness: a Block box with an explicit height has a child whose margin
\* box has another height, and a Block box whose `height` is a keyword has
\* the height of its children.
C19_Witness ==
    /\ pc = "done" /\ ~panicked
    /\ \E p, q \in LaidOut(root, containing_block) :
          /\ HeightPx(styled[p[1].node])
          /\ p[1].children # <<>>
          /\ HeightBefore(p[1], Len(p[1].children) + 1) > 0
          /\ HeightBefore(p[1], Len(p[1].children) + 1) # p[1].dimensions.content.height
          /\ "height" \in DOMAIN styled[q[1].node].specified_values
          /\ ~HeightPx(styled[q[1].node])

\* C20: after layout every Inline box and every Anonymous box of the tree
\* has the all-zero Dimensions it was created with, whatever its node
\* specifies, and the content.height of a laid-out Block box without explicit
\* height is the sum of the margin-box heights of its Block children alone.
C20_InlineAndAnonymousUntouched ==
    (pc = "done" /\ ~panicked) =>
        /\ \A b \in Boxes(root) :
              b.box_type \in {"InlineNode", "AnonymousBlock"}
              => /\ b.dimensions = DefaultDimensions
                 /\ margin_box(b.dimensions).height = 0
        /\ \A p \in LaidOut(root, containing_block) :
              ~HeightPx(styled[p[1].node])
              => LET kids == BlockChildren(p[1])
                     only == [p[1] EXCEPT !.children = kids]
                 IN  p[1].dimensions.content.height = HeightBefore(only, Len(kids) + 1)

\* C20 witness: a laid-out Block root holds an Anonymous box with an Inline
\* box whose node specifies width, height, margin and padding, and after it a
\* Block box of positive height that starts at the content.y of the root.
C20_Witness ==
    /\ pc = "done" /\ ~panicked
    /\ root.box_type = "BlockNode"
    /\ Len(root.children) = 2
    /\ root.children[1].box_type = "AnonymousBlock"
    /\ root.children[1].children # <<>>
    /\ root.children[1].children[1].box_type = "InlineNode"
    /\ {"width", "height", "margin", "padding-top"}
          \subseteq DOMAIN styled[root.children[1].children[1].node].specified_values
    /\ root.children[1].children[1].dimensions = DefaultDimensions
    /\ root.children[2].box_type = "BlockNode"
    /\ margin_box(root.children[2].dimensions).height > 0
    /\ MarginTop(root.children[2]) = root.dimensions.content.y

\* C21: layout_tree changes of the caller's containing block the
\* content.height alone, which is 0 when it returns, and the content.y of a
\* Block root is the content.y of the containing block plus the root's top
\* margin, border and padding, whatever content.height the caller supplied.
C21_ContainingBlockHeightReset ==
    [][pc = "layout_tree"
       => /\ containing_block' = [containing_block EXCEPT !.content.height = 0]
          /\ containing_block'.content.height = 0
          /\ (~panicked' /\ root'.box_type = "BlockNode")
             => root'.dimensions.content.y
                = containing_block.content.y + root'.dimensions.margin.top
                  + root'.dimensions.border.top + root'.dimensions.padding.top]_vars

\* C21 witness: layout_tree returned for the viewport that was supplied with
\* a content.height of 24 px: the content.height is 0, the Block root starts
\* at the content.y of the viewport and has a height of its own.
C21_Witness ==
    /\ pc = "done" /\ ~panicked
    /\ containing_block.content.height = 0
    /\ [containing_block EXCEPT !.content.height = 2 * 24] \in Viewports
    /\ root.box_type = "BlockNode"
    /\ root.dimensions.content.y = containing_block.content.y
    /\ root.dimensions.content.height > 0

\* C25: width, position, children, height: every Block child of a laid-out
\* Block box is laid out against the final content.width, content.x and
\* content.y of its parent, below the children before it, and the explicit
\* height of the parent is its final content.height without having moved
\* any child.
C25_FourStepOrder ==
    (pc = "done" /\ ~panicked) =>
        \A p \in LaidOut(root, containing_block) :
            LET b == p[1]
                d == b.dimensions
            IN  /\ \A k \in DOMAIN b.children : b.children[k].box_type = "BlockNode" =>
                      LET c == b.children[k].dimensions
                      IN  /\ ~AutoWidthNegativeUnderflow(styled[b.children[k].node], d)
                             => SevenSum(c) = d.content.width
                          /\ c.content.x = d.content.x + c.margin.left + c.border.left
                                           + c.padding.left
                          /\ c.content.y = d.content.y + HeightBefore(b, k) + c.margin.top
                                           + c.border.top + c.padding.top
                /\ HeightPx(styled[b.node])
                   => d.content.height = styled[b.node].specified_values["height"].n

\* C25 witness: a Block box with an explicit height, away from the left edge
\* of its containing block, has a Block child whose margin box has another,
\* positive height and starts at the top of the parent's content box.
C25_Witness ==
    /\ pc = "done" /\ ~panicked
    /\ \E p \in LaidOut(root, containing_block) :
          LET b == p[1]
          IN  /\ HeightPx(styled[b.node])
              /\ b.dimensions.content.x > p[2].content.x
              /\ b.dimensions.content.width < p[2].content.width
              /\ \E k \in DOMAIN b.children :
                    /\ b.children[k].box_type = "BlockNode"
                    /\ margin_box(b.children[k].dimensions).height > 0
                    /\ margin_box(b.children[k].dimensions).height # b.dimensions.content.height
                    /\ MarginTop(b.children[k]) = b.dimensions.content.y
                    /\ SevenSum(b.children[k].dimensions) = b.dimensions.content.width

\* The Block boxes of a tree that lie below an Inline or Anonymous box;
\* `inside` tells that b itself lies below one.
RECURSIVE BlocksBelowInline(_, _)
BlocksBelowInline(b, inside) ==
    (IF inside /\ b.box_type = "BlockNode" THEN {b} ELSE {})
    \cup UNION {BlocksBelowInline(b.children[i], inside \/ b.box_type # "BlockNode") :
                   i \in DOMAIN b.children}

\* C27: after layout every Block box that has an Inline or Anonymous ancestor
\* has the all-zero Dimensions it was built with, whatever its styled node
\* specifies, and is not among the boxes layout reached.
C27_BlockBelowInlineNotLaidOut ==
    (pc = "done" /\ ~panicked) =>
        \A b \in BlocksBelowInline(root, FALSE) :
            /\ b.dimensions = DefaultDimensions
            /\ \A p \in LaidOut(root, containing_block) : p[1] # b

\* C27 witness: a Block box whose node specifies a width, a height and
\* margins lies below an Inline box in an Anonymous box of a laid-out Block
\* root, with all-zero Dimensions.
C27_Witness ==
    /\ pc = "done" /\ ~panicked
    /\ root.box_type = "BlockNode"
    /\ root.dimensions.content.width > 0
    /\ \E b \in BlocksBelowInline(root, FALSE) :
          /\ {"width", "height", "margin"} \subseteq DOMAIN styled[b.node].specified_values
          /\ HeightPx(styled[b.node])
          /\ b.dimensions = DefaultDimensions
    /\ \E i \in DOMAIN root.children :
          /\ root.children[i].box_type = "AnonymousBlock"
          /\ \E j \in DOMAIN root.children[i].children :
                /\ root.children[i].children[j].box_type = "InlineNode"
                /\ \E k \in DOMAIN root.children[i].children[j].children :
                      root.children[i].children[j].children[k].box_type = "BlockNode"

-----------------------------------------------------------------------------
(* Stage 5a: Canvas::paint_item (painting.rs).                             *)

MaxCanvas == 2         \* width and height of a canvas, in pixels
MaxCoord == 2          \* coordinates and sizes of a painted rectangle, in px
MaxItems == 2          \* commands painted into one canvas

red == Color(255, 0, 0)
blue == Color(0, 0, 255)

\* A new canvas and a display list of rectangles with non-negative
\* whole-number coordinates and sizes.
InitCanvas ==
    /\ pc = "paint_item"
    /\ \E w, h \in 1..MaxCanvas : canvas = Canvas_new(w, h)
    /\ \E n \in 1..MaxItems :
          display_list \in [1..n -> {SolidColor(c, Rect(2 * x, 2 * y, 2 * w, 2 * h)) :
                                        c \in {red, blue}, x \in 0..MaxCoord, y \in 0..MaxCoord,
                                        w \in 0..MaxCoord, h \in 0..MaxCoord}]
    /\ item = 1
    /\ message = ""
    /\ window = <<2 * canvas.width, 2 * canvas.height>>
    /\ CssIdle /\ StyleIdle /\ DomIdle /\ LayoutIdle

\* One turn of the loop of paint: canvas.paint_item(&item).  A panic! ends
\* the program and drops the canvas.
PaintItem ==
    /\ pc = "paint_item"
    /\ item <= Len(display_list)
    /\ LET painted == paint_item(canvas, display_list[item])
       IN  IF painted = IndexOutOfBounds
           THEN /\ panicked' = TRUE
                /\ message' = IndexOutOfBounds.panic
                /\ canvas' = NoCanvas
                /\ pc' = "done"
                /\ UNCHANGED item
           ELSE /\ canvas' = painted
                /\ item' = item + 1
                /\ UNCHANGED <<pc, panicked, message>>
    /\ UNCHANGED <<window, display_list, document, input, selectors, specificities, elem, selector,
                   matched, stylesheet, rules, values, styled, containing_block, root>>

\* The end of the loop of paint: the canvas is returned.
PaintReturn ==
    /\ pc = "paint_item"
    /\ item > Len(display_list)
    /\ pc' = "done"
    /\ UNCHANGED <<window, message, display_list, canvas, item, document, input, selectors, specificities,
                   elem, selector, matched, stylesheet, rules, values, styled, containing_block,
                   root, panicked>>

NextCanvas == PaintItem \/ PaintReturn

SpecCanvas == InitCanvas /\ [][NextCanvas]_vars

-----------------------------------------------------------------------------
(* Properties of the canvas.                                               *)

\* Pixel (x, y) of a canvas.
Pixel(c, x, y) == c.pixels[x + y * c.width + 1]

\* The rectangle has non-negative whole-number coordinates and sizes.
WholeRect(r) == \A v \in {r.x, r.y, r.width, r.height} : v >= 0 /\ v % 2 = 0

\* Pixel (x, y) lies in the rectangle.
InRect(r, x, y) ==
    /\ r.x <= 2 * x /\ 2 * x < r.x + r.width
    /\ r.y <= 2 * y /\ 2 * y < r.y + r.height

\* C23: paint_item with SolidColor(color, rect), rect of non-negative
\* whole-number coordinates and sizes, sets to color exactly the pixels (x, y)
\* with rect.x <= x < rect.x + rect.width and rect.y <= y < rect.y + rect.height
\* and leaves every other pixel, the width, the height and the pixel count of
\* the canvas unchanged.
C23_PaintItemExact ==
    [][(pc = "paint_item" /\ item <= Len(display_list) /\ WholeRect(display_list[item].rect))
       => /\ ~panicked'
          /\ canvas'.width = canvas.width
          /\ canvas'.height = canvas.height
          /\ Len(canvas'.pixels) = Len(canvas.pixels)
          /\ \A x \in 0..(canvas.width - 1), y \in 0..(canvas.height - 1) :
                Pixel(canvas', x, y) = IF InRect(display_list[item].rect, x, y)
                                       THEN display_list[item].color
                                       ELSE Pixel(canvas, x, y)]_vars

-----------------------------------------------------------------------------
(* Stage 5b: the pipeline of main.rs from the styled tree on: layout_tree   *)
(* against the viewport, then paint into a canvas of the viewport's size.   *)

MaxPaintNodes == 3     \* styled nodes in a tree handed to layout_tree and paint

\* The styles of the painted nodes: a red block two rows high; a blue block
\* 4 px wide and one row high; a block with a blue border and a red
\* background; an inline node with a red background; a blue block with a
\* margin; a hidden node.
PaintStyles ==
    {Properties(<<<<"display", Some(Keyword("block"))>>, <<"background", Some(Colorvalue(red))>>,
                  <<"height", Some(Px(2))>>>>),
     Properties(<<<<"display", Some(Keyword("block"))>>, <<"background", Some(Colorvalue(blue))>>,
                  <<"width", Some(Px(4))>>, <<"height", Some(Px(1))>>>>),
     Properties(<<<<"display", Some(Keyword("block"))>>, <<"background", Some(Colorvalue(red))>>,
                  <<"border-color", Some(Colorvalue(blue))>>, <<"border", Some(Px(1))>>>>),
     Properties(<<<<"background", Some(Colorvalue(red))>>, <<"border-color", Some(Keyword("blue"))>>>>),
     Properties(<<<<"display", Some(Keyword("block"))>>, <<"background", Some(Colorvalue(blue))>>,
                  <<"margin", Some(Px(1))>>, <<"height", Some(Px(1))>>>>),
     Properties(<<<<"display", Some(Keyword("none"))>>>>)}

\* main's `let (width, height)`: the sizes of the window, in half pixels.
Windows == {<<2 * w, 2 * h>> : w \in {3, 4}, h \in {2, 3}}

InitPaint ==
    /\ pc = "main"
    /\ \E n \in 1..MaxPaintNodes : \E f \in ParentVectors(n) : \E m \in [1..n -> PaintStyles] :
          styled = StyledTree(f, m)
    /\ window \in Windows
    /\ containing_block = [DefaultDimensions EXCEPT !.content.width = window[1],
                                                    !.content.height = window[2]]
    /\ root = NoBox
    /\ panicked = FALSE
    /\ message = "" /\ display_list = <<>> /\ canvas = NoCanvas /\ item = 0
    /\ CssIdle /\ StyleIdle /\ DomIdle

\* main: layout::layout_tree(&style, &mut viewport)
MainLayoutTree ==
    /\ pc = "main"
    /\ LET done == layout_tree(styled, containing_block)
       IN  /\ containing_block' = done.cb
           /\ IF done.root.box_type = "panic"
              THEN /\ panicked' = TRUE
                   /\ message' = done.root.message
                   /\ root' = NoBox
                   /\ pc' = "done"
              ELSE /\ root' = done.root
                   /\ pc' = "paint"
                   /\ UNCHANGED <<panicked, message>>
    /\ UNCHANGED <<window, display_list, canvas, item, document, input, selectors, specificities,
                   elem, selector, matched, stylesheet, rules, values, styled>>

\* main: painting::paint(&layout, width as usize, height as usize), up to its
\* loop.
BuildDisplayList ==
    /\ pc = "paint"
    /\ display_list' = build_display_list(styled, root)
    /\ canvas' = Canvas_new(as_usize(window[1]), as_usize(window[2]))
    /\ item' = 1
    /\ pc' = "paint_item"
    /\ UNCHANGED <<window, message, document, input, selectors, specificities, elem, selector,
                   matched, stylesheet, rules, values, styled, containing_block, root, panicked>>

NextPaint == MainLayoutTree \/ BuildDisplayList \/ PaintItem \/ PaintReturn

SpecPaint == InitPaint /\ [][NextPaint]_vars

-----------------------------------------------------------------------------
(* Properties of painting.                                                 *)

\* The concatenation of a sequence of sequences.
RECURSIVE Concat(_)
Concat(seqs) == IF seqs = <<>> THEN <<>> ELSE Head(seqs) \o Concat(Tail(seqs))

\* The commands of a box and of the boxes below it: the background of the
\* box, then its borders, then the commands of its children in child order.
RECURSIVE PreOrder(_, _)
PreOrder(tree, b) ==
    render_background(tree, <<>>, b) \o render_borders(tree, <<>>, b)
    \o Concat([i \in DOMAIN b.children |-> PreOrder(tree, b.children[i])])

\* The commands of the display list whose rectangle covers pixel (x, y).
Covering(x, y) == {i \in DOMAIN display_list : InRect(display_list[i].rect, x, y)}

RECURSIVE StyledCommands(_, _, _)
StyledCommands(tree, b, k) ==
    IF k = 0
    THEN IF b.node = 0 THEN 0
         ELSE LET m == tree[b.node].specified_values
                  colour(name) == name \in DOMAIN m /\ m[name].kind = "Colorvalue"
              IN  (IF colour("background") THEN 1 ELSE 0) + (IF colour("border-color") THEN 4 ELSE 0)
    ELSE StyledCommands(tree, b, k - 1)
         + StyledCommands(tree, b.children[k], Len(b.children[k].children))

\* C24: building, laying out and painting a tree never ends in the panic of
\* get_style_node for an Anonymous box; get_color gives None for every
\* Anonymous box, so the display list holds only the commands of the boxes
\* that have a styled node.
C24_AnonymousNeverQueried ==
    /\ message # NoStyleNode.message
    /\ pc \in {"paint", "paint_item"} =>
          \A b \in Boxes(root) : b.box_type = "AnonymousBlock" =>
              /\ get_color(styled, b, "background") = None
              /\ get_color(styled, b, "border-color") = None
    /\ pc = "paint_item" =>
          Len(display_list) = StyledCommands(styled, root, Len(root.children))

\* C24 witness: a tree with an Anonymous box that holds a coloured Inline box
\* under a laid-out Block root went through layout and paint without a panic.
C24_Witness ==
    /\ pc = "done" /\ ~panicked
    /\ root.box_type = "BlockNode"
    /\ root.dimensions.content.width > 0
    /\ \E i \in DOMAIN root.children :
          /\ root.children[i].box_type = "AnonymousBlock"
          /\ \E j \in DOMAIN root.children[i].children :
                get_color(styled, root.children[i].children[j], "background") # None
    /\ Len(display_list) >= 2
    /\ item = Len(display_list) + 1
====
